---- MODULE Spec2Model ----
(***************************************************************************)
(* Model of the hybrid adaptive context system and of the UAMAgent retry   *)
(* loop of src/src/harbor/uam_agent.py.                                    *)
(*                                                                         *)
(* Text is modelled as TLA+ strings, and the substring tests, lower(),     *)
(* strip(), split() and join() of the source are computed character by     *)
(* character.  Times are whole seconds; a historical benefit b is held as  *)
(* the integer 100*b; the ratio comparisons of the source are decided by   *)
(* cross-multiplication, which agrees with the source's floating point     *)
(* division on whole-second timeouts (the quotient of two small integers   *)
(* is rounded to the double nearest to it, and the thresholds 1.2, 1.5,    *)
(* 2.0 and 0.1 are the doubles nearest to those numbers).                  *)
(***************************************************************************)
EXTENDS Integers, Sequences, FiniteSets, TLC

VARIABLES
    pc,                     \* position of UAMAgent.run / kind of the last pure call
    instruction,            \* run(instruction, ...)
    timeout_sec,            \* self._timeout_sec
    max_turns,              \* self._max_turns
    use_memory,             \* self._use_memory
    context_decision,       \* self._context_decision
    task_category,          \* self._task_category
    memory_context,         \* self._memory_context
    env_info,               \* local env_info of run
    prev_error,             \* local prev_error of run
    current_context_level,  \* local current_context_level of run
    attempt,                \* loop variable of run
    prompt,                 \* local prompt of run (the layers of _build_prompt)
    turns,                  \* records of context.add_turn, in call order
    result,                 \* local result of run: what the droid command returned
    metadata,               \* keys set by context.add_metadata
    call,                   \* arguments and result of the last pure call
    enable_pre_hooks,       \* SuperGeniusAgent: self._enable_pre_hooks
    enable_planning,        \* SuperGeniusAgent: self._enable_planning
    task_classification,    \* SuperGeniusAgent: self._task_classification
    pre_hook_context,       \* SuperGeniusAgent: self._pre_hook_context
    pending,                \* the commands the running for loop has still to dispatch
    info_parts,             \* local info_parts of _gather_env_info
    turn,                   \* loop variable of SuperGeniusAgent.run
    current_prompt,         \* local current_prompt of SuperGeniusAgent.run
    response_text,          \* local response_text of SuperGeniusAgent.run
    commands,               \* local commands of SuperGeniusAgent.run
    all_output,             \* local all_output of SuperGeniusAgent.run
    context_metadata,       \* context.metadata of SuperGeniusAgent.run
    chat,                   \* the engine behind chat.chat and the calls it received
    environment,            \* the container behind environment.exec and its calls
    tasks_run               \* the calls of run the agent instance has completed

vars == <<pc, instruction, timeout_sec, max_turns, use_memory, context_decision,
          task_category, memory_context, env_info, prev_error,
          current_context_level, attempt, prompt, turns, result, metadata, call,
          enable_pre_hooks, enable_planning, task_classification, pre_hook_context,
          pending, info_parts, turn, current_prompt, response_text, commands,
          all_output, context_metadata, chat, environment, tasks_run>>

\* the state of a SuperGeniusAgent run, and the count of completed runs
sgVars == <<enable_pre_hooks, enable_planning, task_classification, pre_hook_context,
            pending, info_parts, turn, current_prompt, response_text, commands,
            all_output, context_metadata, chat, environment, tasks_run>>

runVars == <<pc, instruction, timeout_sec, max_turns, use_memory, context_decision,
             task_category, memory_context, env_info, prev_error,
             current_context_level, attempt, prompt, turns, result, metadata,
             enable_pre_hooks, enable_planning, task_classification, pre_hook_context,
             pending, info_parts, turn, current_prompt, response_text, commands,
             all_output, context_metadata, chat, environment, tasks_run>>

-----------------------------------------------------------------------------
(* Strings *)

Min(a, b) == IF a < b THEN a ELSE b

Max(a, b) == IF a > b THEN a ELSE b

\* Python: kw in s
Contains(s, kw) ==
    \E i \in 1..(Len(s) - Len(kw) + 1) : SubSeq(s, i, i + Len(kw) - 1) = kw

\* Python: any(kw in s for kw in kws), kws a sequence of strings
ContainsAny(s, kws) == \E k \in 1..Len(kws) : Contains(s, kws[k])

UpperLetters == "ABCDEFGHIJKLMNOPQRSTUVWXYZ"

LowerLetters == "abcdefghijklmnopqrstuvwxyz"

\* the lower-case letter of each upper-case letter
LowerOf ==
    [c \in {SubSeq(UpperLetters, k, k) : k \in 1..Len(UpperLetters)} |->
        LET k == CHOOSE j \in 1..Len(UpperLetters) : SubSeq(UpperLetters, j, j) = c
        IN  SubSeq(LowerLetters, k, k)]

LowerChar(c) == IF c \in DOMAIN LowerOf THEN LowerOf[c] ELSE c

\* s[i..j] in lower case, by halves
RECURSIVE LowerFrom(_, _, _)
LowerFrom(s, i, j) ==
    IF i > j THEN ""
    ELSE IF i = j THEN LowerChar(SubSeq(s, i, i))
    ELSE LowerFrom(s, i, (i + j) \div 2) \o LowerFrom(s, (i + j) \div 2 + 1, j)

\* Python: s.lower()
Lower(s) == LowerFrom(s, 1, Len(s))

IsSpace(c) == c \in {" ", "\n", "\t", "\r"}

\* Python: s.strip()
Strip(s) ==
    LET keep == {i \in 1..Len(s) : ~IsSpace(SubSeq(s, i, i))}
    IN  IF keep = {} THEN ""
        ELSE LET lo == CHOOSE i \in keep : \A j \in keep : i <= j
                 hi == CHOOSE i \in keep : \A j \in keep : j <= i
             IN  SubSeq(s, lo, hi)

\* the lines of s from position start on
RECURSIVE SplitFrom(_, _)
SplitFrom(s, start) ==
    LET breaks == {i \in start..Len(s) : SubSeq(s, i, i) = "\n"}
    IN  IF breaks = {} THEN <<SubSeq(s, start, Len(s))>>
        ELSE LET i == CHOOSE b \in breaks : \A c \in breaks : b <= c
             IN  <<SubSeq(s, start, i - 1)>> \o SplitFrom(s, i + 1)

\* Python: s.split("\n")
SplitLines(s) == SplitFrom(s, 1)

RECURSIVE Join(_, _)
\* Python: sep.join(parts)
Join(sep, parts) ==
    IF Len(parts) = 0 THEN ""
    ELSE IF Len(parts) = 1 THEN parts[1]
    ELSE parts[1] \o sep \o Join(sep, Tail(parts))

\* Python: xs[-n:]
LastN(xs, n) == SubSeq(xs, Max(1, Len(xs) - n + 1), Len(xs))

InSeq(x, xs) == \E k \in 1..Len(xs) : xs[k] = x

-----------------------------------------------------------------------------
(* Static tables of src/src/harbor/uam_agent.py *)

ContextLevels == <<"none", "minimal", "full">>

\* Python: ['none', 'minimal', 'full'].index(l)
LevelIndex(l) == CHOOSE k \in 1..Len(ContextLevels) : ContextLevels[k] = l

LOW_BENEFIT_CATEGORIES ==
    {"reasoning", "scheduling", "constraint-satisfaction",
     "games", "pure-logic", "mathematical"}

SKIP_UAM_KEYWORDS ==
    <<"schedule", "scheduling", "calendar", "meeting",
      "constraint", "satisfy", "optimize",
      "chess move", "best move", "game theory",
      "mathematical proof", "prove that", "logic puzzle">>

HIGH_BENEFIT_KEYWORDS ==
    <<"password", "hash", "crack", "decrypt",
      "elf", "binary", "executable", "extract",
      "xss", "injection", "sanitize", "filter",
      "sqlite", "database", "recovery", "wal",
      "compile", "build", "makefile",
      "cobol", "modernize", "legacy">>

CONTEXT_SECTIONS ==
    [security |->
        [tokens |-> 150,
         content |->
            "### Security\n"
            \o "- XSS: Use bleach.clean() or DOMPurify. Remove script, onclick, onerror, javascript:\n"
            \o "- Password cracking: hashcat -m 11600 for 7z, -m 0 MD5, john for CPU\n"
            \o "- Binary secrets: strings, objdump -d, check .rodata section\n"
            \o "- CVE exploitation: Research exact steps before attempting, some operations irreversible\n"
            \o "- Always validate and sanitize user input"],
     file_formats |->
        [tokens |-> 120,
         content |->
            "### File Formats\n"
            \o "- ELF: Program headers at e_phoff. Use struct.unpack('<HH...') for parsing\n"
            \o "- SQLite WAL: Header 32 bytes, frames follow. PRAGMA wal_checkpoint(TRUNCATE) to recover\n"
            \o "- 7z: Install p7zip-full, use 7z x -p'password' for password protected archives"],
     coding |->
        [tokens |-> 80,
         content |->
            "### Coding\n"
            \o "- Use absolute paths (/app/...) not relative\n"
            \o "- Verify file exists before reading\n"
            \o "- Handle edge cases in parsing\n"
            \o "- Match exact output format required"],
     tools |->
        [tokens |-> 100,
         content |->
            "### Tools\n"
            \o "- hashcat: GPU password cracking, -m flag for hash type (11600=7z, 0=MD5, 1000=NTLM)\n"
            \o "- john: CPU password cracking, flexible format support\n"
            \o "- readelf -a / objdump -d: Binary analysis\n"
            \o "- strings: Extract printable strings from binaries"],
     legacy |->
        [tokens |-> 90,
         content |->
            "### Legacy Code\n"
            \o "- COBOL: Fixed-format columns (1-6 sequence, 7 indicator, 8-72 code)\n"
            \o "- WORKING-STORAGE SECTION for variables\n"
            \o "- Modernization: Preserve business logic, update data structures\n"
            \o "- Test with original inputs to verify behavior matches"],
     ml |->
        [tokens |-> 100,
         content |->
            "### ML Training (Risk-Aware)\n"
            \o "- CRITICAL: Test with small epochs/batch first before full runs\n"
            \o "- Training can exceed 5 minutes - verify shapes and configs early\n"
            \o "- Check GPU: nvidia-smi, CUDA_VISIBLE_DEVICES for GPU selection\n"
            \o "- Cache datasets to avoid re-downloads"]]

\* benefit ratios times 100
HISTORICAL_BENEFIT ==
    [t \in {"security", "file-ops", "legacy", "coding", "debugging", "scheduling",
            "games", "constraint-satisfaction", "pure-logic", "reasoning", "general"} |->
        CASE t = "security" -> 80
          [] t = "file-ops" -> 70
          [] t = "legacy" -> 60
          [] t = "coding" -> 40
          [] t = "debugging" -> 50
          [] t = "general" -> 30
          [] OTHER -> 5]

\* HISTORICAL_BENEFIT.get(task_type, 0.3), times 100
DefaultBenefit == 30

\* the threshold 0.1 of Rule 4, times 100
BenefitThreshold == 10

-----------------------------------------------------------------------------
(* HybridAdaptiveContext *)

\* Faulty variant of classify_task: the high-benefit keywords are checked first
classify_task_benefit_first(instr) ==
    LET lower == Lower(instr)
        highCategory ==
            IF ContainsAny(lower, <<"password", "hash", "crack", "xss",
                                    "injection", "sanitize", "secret">>)
            THEN "security"
            ELSE IF ContainsAny(lower, <<"elf", "sqlite", "binary", "extract">>)
            THEN "file-ops"
            ELSE IF ContainsAny(lower, <<"cobol", "legacy", "modernize">>)
            THEN "legacy"
            ELSE "general"
    IN  IF ContainsAny(lower, HIGH_BENEFIT_KEYWORDS) /\ highCategory # "general"
        THEN highCategory
        ELSE IF ContainsAny(lower, SKIP_UAM_KEYWORDS)
        THEN IF ContainsAny(lower, <<"schedule", "calendar", "meeting">>)
             THEN "scheduling"
             ELSE IF ContainsAny(lower, <<"chess", "game", "move">>)
             THEN "games"
             ELSE IF ContainsAny(lower, <<"constraint", "satisfy">>)
             THEN "constraint-satisfaction"
             ELSE IF ContainsAny(lower, <<"prove", "proof", "logic">>)
             THEN "pure-logic"
             ELSE "reasoning"
        ELSE "general"

\* The loops over SKIP_UAM_KEYWORDS and HIGH_BENEFIT_KEYWORDS test conditions
\* that do not depend on the keyword found, so each loop is decided by whether
\* any keyword of the list occurs.
classify_task(instr) ==
    LET lower == Lower(instr)
    IN  IF ContainsAny(lower, SKIP_UAM_KEYWORDS)
        THEN IF ContainsAny(lower, <<"schedule", "calendar", "meeting">>)
             THEN "scheduling"
             ELSE IF ContainsAny(lower, <<"chess", "game", "move">>)
             THEN "games"
             ELSE IF ContainsAny(lower, <<"constraint", "satisfy">>)
             THEN "constraint-satisfaction"
             ELSE IF ContainsAny(lower, <<"prove", "proof", "logic">>)
             THEN "pure-logic"
             ELSE "reasoning"
        ELSE IF ContainsAny(lower, HIGH_BENEFIT_KEYWORDS)
        THEN IF ContainsAny(lower, <<"password", "hash", "crack", "xss",
                                     "injection", "sanitize", "secret">>)
             THEN "security"
             ELSE IF ContainsAny(lower, <<"elf", "sqlite", "binary", "extract">>)
             THEN "file-ops"
             ELSE IF ContainsAny(lower, <<"cobol", "legacy", "modernize">>)
             THEN "legacy"
             ELSE "general"
        ELSE "general"

\* twice the difficulty multiplier: {'easy': 0.5, 'medium': 1.0, 'hard': 2.0}.get(difficulty, 1.0)
difficulty_mult2(difficulty) ==
    CASE difficulty = "easy" -> 1
      [] difficulty = "medium" -> 2
      [] difficulty = "hard" -> 4
      [] OTHER -> 2

base_duration(task_type) ==
    CASE task_type = "security" -> 120
      [] task_type = "file-ops" -> 90
      [] task_type = "legacy" -> 150
      [] task_type = "coding" -> 60
      [] task_type = "debugging" -> 90
      [] task_type = "scheduling" -> 45
      [] task_type = "games" -> 30
      [] task_type = "constraint-satisfaction" -> 60
      [] task_type = "pure-logic" -> 90
      [] task_type = "reasoning" -> 60
      [] task_type = "general" -> 60
      [] OTHER -> 60

\* Faulty variant of RatioBelow: the comparison admits equality (ratio <= 1.2)
RatioAtMost(num, den, tenths) == 10 * num <= tenths * den

\* num / den < tenths / 10, for den > 0
RatioBelow(num, den, tenths) == 10 * num < tenths * den

\* ratio = timeout_sec / expected, with expected = expected2 / 2
assess_time_pressure(timeout, task_type, difficulty) ==
    LET expected2 == base_duration(task_type) * difficulty_mult2(difficulty)
    IN  IF RatioBelow(2 * timeout, expected2, 12) THEN "critical"
        ELSE IF RatioBelow(2 * timeout, expected2, 15) THEN "high"
        ELSE IF RatioBelow(2 * timeout, expected2, 20) THEN "medium"
        ELSE "low"

get_historical_benefit(task_type) ==
    IF task_type \in DOMAIN HISTORICAL_BENEFIT
    THEN HISTORICAL_BENEFIT[task_type]
    ELSE DefaultBenefit

section_keywords ==
    << [section |-> "security",
        keywords |-> <<"xss", "password", "hash", "crack", "secret", "exploit",
                       "injection", "sanitize">>],
       [section |-> "file_formats",
        keywords |-> <<"elf", "sqlite", "7z", "archive", "binary", "extract", "format">>],
       [section |-> "coding",
        keywords |-> <<"implement", "function", "class", "refactor", "algorithm", "code">>],
       [section |-> "tools",
        keywords |-> <<"hashcat", "john", "strings", "objdump", "readelf", "command", "cli">>],
       [section |-> "legacy",
        keywords |-> <<"cobol", "fortran", "legacy", "modernize", "mainframe">>] >>

RECURSIVE MatchedSections(_, _)
MatchedSections(lower, k) ==
    IF k > Len(section_keywords) THEN <<>>
    ELSE (IF ContainsAny(lower, section_keywords[k].keywords)
          THEN <<section_keywords[k].section>> ELSE <<>>)
         \o MatchedSections(lower, k + 1)

\* a default section that is appended without looking at the list
AppendDefault_unconditional(sections, cond, x) ==
    IF cond THEN Append(sections, x) ELSE sections

\* sections.append(x) if cond and x not in sections
AppendDefault(sections, cond, x) ==
    IF cond /\ ~InSeq(x, sections) THEN Append(sections, x) ELSE sections

select_relevant_sections(instr, task_type) ==
    LET s0 == MatchedSections(Lower(instr), 1)
        s1 == AppendDefault(s0, task_type = "security", "security")
        s2 == AppendDefault(s1, task_type = "file-ops", "file_formats")
    IN  AppendDefault(s2, task_type = "legacy", "legacy")

ms_per_token == 4

RECURSIVE total_tokens(_)
\* sum(CONTEXT_SECTIONS.get(s, {}).get('tokens', 0) for s in sections)
total_tokens(sections) ==
    IF Len(sections) = 0 THEN 0
    ELSE (IF Head(sections) \in DOMAIN CONTEXT_SECTIONS
          THEN CONTEXT_SECTIONS[Head(sections)].tokens ELSE 0)
         + total_tokens(Tail(sections))

\* an overhead a hundred times that of the token costs
calculate_overhead_hundredfold(sections) == total_tokens(sections) * ms_per_token * 100

calculate_overhead(sections) == total_tokens(sections) * ms_per_token

\* f"{historical_benefit*100:.1f}" for a benefit held as a whole number of percents
FormatPercent(benefit) == ToString(benefit) \o ".0"

ContextDecision(level, sections, reason, overhead, task_type, time_pressure, benefit) ==
    [level |-> level, sections |-> sections, reason |-> reason,
     estimated_overhead_ms |-> overhead, task_type |-> task_type,
     time_pressure |-> time_pressure, historical_benefit |-> benefit]

\* Faulty variant of use_minimal: both conditions are required
use_minimal_conjunctive(time_pressure, overhead, timeout) ==
    time_pressure = "high" /\ 10 * overhead > timeout * 1000

\* Rule 7: overhead / (timeout_sec * 1000) > 0.1, or high time pressure
use_minimal(time_pressure, overhead, timeout) ==
    time_pressure = "high" \/ 10 * overhead > timeout * 1000

\* Faulty variant of minimal_sections_of: no default section
minimal_sections_no_default(sections) == SubSeq(sections, 1, Min(1, Len(sections)))

\* sections[:1] if sections else ['coding']
minimal_sections_of(sections) ==
    IF Len(sections) > 0 THEN SubSeq(sections, 1, 1) ELSE <<"coding">>

\* sections if sections else ['coding']
full_sections_of(sections) ==
    IF Len(sections) > 0 THEN sections ELSE <<"coding">>

\* Faulty variant of none_decision: the default section is applied at level none
none_decision_with_default(reason, task_type, time_pressure, benefit) ==
    ContextDecision("none", <<"coding">>, reason, calculate_overhead(<<"coding">>),
                    task_type, time_pressure, benefit)

\* a decision of level none that reports low time pressure whatever the rule
none_decision_low_pressure(reason, task_type, time_pressure, benefit) ==
    ContextDecision("none", <<>>, reason, 0, task_type, "low", benefit)

\* the three decisions of level none
none_decision(reason, task_type, time_pressure, benefit) ==
    ContextDecision("none", <<>>, reason, 0, task_type, time_pressure, benefit)

\* Rules 1..7 and the default, for the task type found by classify_task
decide_for_task_type(instr, timeout, difficulty, task_type) ==
    LET time_pressure == assess_time_pressure(timeout, task_type, difficulty)
        historical_benefit == get_historical_benefit(task_type)
        sections == select_relevant_sections(instr, task_type)
        overhead == calculate_overhead(sections)
        minimal_sections == minimal_sections_of(sections)
    IN  IF task_type \in LOW_BENEFIT_CATEGORIES
        THEN none_decision(
                 "Task type '" \o task_type \o "' is pure reasoning - UAM adds no benefit",
                 task_type, "low", 0)
        ELSE IF historical_benefit < BenefitThreshold
        THEN none_decision(
                 "Low historical benefit (" \o FormatPercent(historical_benefit)
                     \o "%) for " \o task_type,
                 task_type, time_pressure, historical_benefit)
        ELSE IF time_pressure = "critical"
        THEN none_decision(
                 "Critical time pressure - skipping UAM to avoid timeout",
                 task_type, time_pressure, historical_benefit)
        ELSE IF use_minimal(time_pressure, overhead, timeout)
        THEN ContextDecision("minimal", minimal_sections,
                 "High time pressure - using minimal context",
                 calculate_overhead(minimal_sections),
                 task_type, time_pressure, historical_benefit)
        ELSE ContextDecision("full", full_sections_of(sections),
                 "Full context for " \o task_type \o " task (" \o time_pressure
                     \o " pressure)",
                 overhead, task_type, time_pressure, historical_benefit)

\* a decision that depends on the attempt the calling instance has reached
decide_context_level_by_attempt(instr, timeout, difficulty) ==
    decide_for_task_type(instr, timeout \div (attempt + 1), difficulty,
                         classify_task(instr))

decide_context_level(instr, timeout, difficulty) ==
    decide_for_task_type(instr, timeout, difficulty, classify_task(instr))

RECURSIVE SectionContents(_)
SectionContents(sections) ==
    IF Len(sections) = 0 THEN <<>>
    ELSE (IF Head(sections) \in DOMAIN CONTEXT_SECTIONS
          THEN <<CONTEXT_SECTIONS[Head(sections)].content>> ELSE <<>>)
         \o SectionContents(Tail(sections))

generate_context(decision) ==
    IF decision.level = "none" \/ Len(decision.sections) = 0
    THEN ""
    ELSE Join("\n", <<"## UAM Memory Context\n">> \o SectionContents(decision.sections))

\* decide_context_level(instruction) takes the default timeout_sec and difficulty
DefaultTimeoutSec == 300

DefaultDifficulty == "medium"

HelpMarkers ==
    <<"unknown", "how to", "what is", "command not found",
      "invalid syntax", "format", "parse">>

context_might_help(error) == ContainsAny(Lower(error), HelpMarkers)

\* Faulty variant of progressive_levels_of: no exemption of the pure reasoning tasks
progressive_levels_of_any_category(decision, error) ==
    IF ~context_might_help(error) THEN <<decision.level>>
    ELSE IF decision.level = "none" THEN <<"none", "minimal", "full">>
    ELSE IF decision.level = "minimal" THEN <<"minimal", "full">>
    ELSE <<"full">>

\* the list returned for the decision taken with the default arguments
progressive_levels_of(decision, error) ==
    IF decision.task_type \in LOW_BENEFIT_CATEGORIES THEN <<"none">>
    ELSE IF ~context_might_help(error) THEN <<decision.level>>
    ELSE IF decision.level = "none" THEN <<"none", "minimal", "full">>
    ELSE IF decision.level = "minimal" THEN <<"minimal", "full">>
    ELSE <<"full">>

\* a list that offers the whole ladder of levels whenever the error suggests that
\* context might help, whatever the decision of the task
get_progressive_levels_whole_ladder(instr, error) ==
    IF context_might_help(error) THEN <<"none", "minimal", "full">> ELSE <<"none">>

get_progressive_levels(instr, error) ==
    progressive_levels_of(
        decide_context_level(instr, DefaultTimeoutSec, DefaultDifficulty), error)

-----------------------------------------------------------------------------
(* UAMAgent helpers.  A TLA+ string cannot hold a backquote: the backquotes *)
(* of the prompt texts are written as apostrophes.                          *)

\* self._context_decision = None
None == ContextDecision("unset", <<>>, "", 0, "", "", 0)

category_guidelines ==
    [sysadmin |->
        "- Use modern commands: 'ip' over 'ifconfig', 'ss' over 'netstat'\n"
        \o "- Check service status before modifications\n"
        \o "- Backup configs before changing: 'cp file file.bak'\n"
        \o "- Use 'make -j$(nproc)' for parallel builds",
     security |->
        "- NEVER log or expose credentials\n"
        \o "- Use parameterized commands\n"
        \o "- Research CVE details before exploitation\n"
        \o "- Verify permissions carefully",
     mltraining |->
        "- Check GPU availability with 'nvidia-smi'\n"
        \o "- Use 'CUDA_VISIBLE_DEVICES' for GPU selection\n"
        \o "- Cache datasets to avoid re-downloads\n"
        \o "- Monitor memory usage",
     debugging |->
        "- Reproduce the error first\n"
        \o "- Check logs and stack traces\n"
        \o "- Use 'pip check' / 'conda list' for dependencies\n"
        \o "- Try verbose flags (-v, --debug)",
     coding |->
        "- Follow existing code style\n"
        \o "- Handle errors explicitly\n"
        \o "- Include necessary imports\n"
        \o "- Test your solution"]

\* guidelines.get(self._task_category, ""); the key "ml-training" is held as mltraining
UAMAgent_get_category_guidelines(category) ==
    CASE category = "ml-training" -> category_guidelines.mltraining
      [] category \in {"sysadmin", "security", "debugging", "coding"} ->
            category_guidelines[category]
      [] OTHER -> ""

\* prev_error[:500]
ErrorExcerptLimit == 500

\* the layers of the prompt, in order
UAMAgent_prompt_sections(instr, att, error, env, category, memory, maxTurns) ==
    LET guidelines == UAMAgent_get_category_guidelines(category)
        notifications ==
            <<"## CRITICAL REMINDERS">>
            \o (IF att > 1
                THEN <<"\n**ATTEMPT " \o ToString(att) \o "/" \o ToString(maxTurns)
                           \o "**: Previous attempt failed.">>
                     \o (IF error # ""
                         THEN <<"Error: " \o SubSeq(error, 1, Min(Len(error), ErrorExcerptLimit))>>
                         ELSE <<>>)
                     \o <<"**Try a different approach. Do not repeat failed commands.**">>
                ELSE <<>>)
            \o (IF category = "security"
                THEN <<"\n**SECURITY TASK**: Ground exact command sequences before execution. Some operations are irreversible.">>
                ELSE IF category = "ml-training"
                THEN <<"\n**ML TASK**: Test with small epochs/batch FIRST. Training runs can exceed timeout.">>
                ELSE <<>>)
            \o <<"\n**Before completing:**",
                 "- Verify your solution works (run tests if available)",
                 "- Check edge cases",
                 "- Ensure output format matches requirements exactly">>
    IN  <<"## Capabilities\n"
          \o "You are an expert terminal agent with access to:\n"
          \o "- Shell command execution (bash)\n"
          \o "- File operations (read, write, create, modify)\n"
          \o "- Package management (apt, pip, npm, cargo)\n"
          \o "- Service control (systemctl, docker)\n">>
        \o (IF env # "" THEN <<"## Environment (pre-discovered)\n'''\n" \o env \o "\n'''">>
            ELSE <<>>)
        \o (IF guidelines # "" THEN <<"## Guidelines\n\n" \o guidelines>> ELSE <<>>)
        \o (IF memory # "" THEN <<memory>> ELSE <<>>)
        \o <<"## Task\n\n" \o instr>>
        \o <<Join("\n", notifications)>>

UAMAgent_build_prompt(instr, att, error, env, category, memory, maxTurns) ==
    Join("\n\n", UAMAgent_prompt_sections(instr, att, error, env, category, memory, maxTurns))

UAMAgent_error_patterns ==
    <<"error:", "Error:", "ERROR:",
      "failed", "Failed", "FAILED",
      "Traceback (most recent call last)",
      "command not found",
      "No such file or directory">>

UAMAgent_looks_like_error(output) == ContainsAny(output, UAMAgent_error_patterns)

IsErrorLine(l) == ContainsAny(l, <<"error", "Error", "ERROR", "failed", "Failed">>)

\* an excerpt that keeps the first three error lines instead of the last three
UAMAgent_extract_error_first(output) ==
    LET lines == SplitLines(Strip(output))
        error_lines == SelectSeq(lines, IsErrorLine)
    IN  IF Len(error_lines) > 0
        THEN Join("\n", SubSeq(error_lines, 1, Min(3, Len(error_lines))))
        ELSE Join("\n", LastN(lines, 5))

UAMAgent_extract_error(output) ==
    LET lines == SplitLines(Strip(output))
        error_lines == SelectSeq(lines, IsErrorLine)
    IN  IF Len(error_lines) > 0
        THEN Join("\n", LastN(error_lines, 3))
        ELSE Join("\n", LastN(lines, 5))

\* result.exit_code == 0 and not self._looks_like_error(result.stdout)
UAMAgent_turn_succeeded(res) ==
    res.exit_code = 0 /\ ~UAMAgent_looks_like_error(res.stdout)

\* [l for l in progressive_levels if index(l) > current_idx]
next_levels_of(progressive_levels, current) ==
    SelectSeq(progressive_levels, LAMBDA l : LevelIndex(l) > LevelIndex(current))

\* Faulty variant of UAMAgent_escalate: the level falls back to none when there is
\* nothing to escalate to
UAMAgent_escalate_reset(progressive_levels, next_levels, current) ==
    IF Len(progressive_levels) > 1 /\ Len(next_levels) > 0
    THEN next_levels[1]
    ELSE "none"

\* Faulty variant of UAMAgent_escalate: the test len(progressive_levels) > 1 is dropped
UAMAgent_escalate_unguarded(progressive_levels, next_levels, current) ==
    IF Len(next_levels) > 0 THEN next_levels[1] ELSE current

\* if len(progressive_levels) > 1: ... if next_levels: current = next_levels[0]
UAMAgent_escalate(progressive_levels, next_levels, current) ==
    IF Len(progressive_levels) > 1 /\ Len(next_levels) > 0
    THEN next_levels[1]
    ELSE current

UAMAgent_escalate_from(progressive_levels, current) ==
    UAMAgent_escalate(progressive_levels,
                      next_levels_of(progressive_levels, current), current)

\* The level after the escalation step at the head of a turn
UAMAgent_escalated_level(instr, att, error, current) ==
    IF att > 1 /\ error # ""
    THEN UAMAgent_escalate_from(get_progressive_levels(instr, error), current)
    ELSE current

\* an escalated decision whose time pressure is assessed anew for the default timeout
UAMAgent_escalated_decision_reassessed(instr, level, decision, category) ==
    ContextDecision(level,
        IF level # "full" THEN decision.sections
        ELSE select_relevant_sections(instr, category),
        "Escalated from " \o decision.level \o " after failure",
        0, category,
        assess_time_pressure(DefaultTimeoutSec, category, DefaultDifficulty),
        decision.historical_benefit)

\* The decision rebuilt when the level has been raised to 'level'
UAMAgent_escalated_decision(instr, level, decision, category) ==
    ContextDecision(level,
        IF level # "full" THEN decision.sections
        ELSE select_relevant_sections(instr, category),
        "Escalated from " \o decision.level \o " after failure",
        0, category, decision.time_pressure, decision.historical_benefit)

-----------------------------------------------------------------------------
(* Inputs *)

\* the largest turn budget an agent is constructed with
MaxTurns == 3

\* the largest timeout, in seconds, of a call of a pure function
MaxTimeout == 300

Instructions ==
    {"",
     "Fix the failing unit tests",
     "Compile the project with make",
     "Crack the password hash",
     "Extract the ELF binary sections",
     "Write a shelf inventory report",
     "Recover the SQLite database from the WAL",
     "Modernize the legacy COBOL program",
     "Implement a function to parse the legacy archive format using strings and hashcat",
     "Schedule a meeting and hash the password",
     "Find the best move in this chess position",
     "Optimize the build",
     "Prove that the password filter terminates",
     "Satisfy each constraint"}

\* self._timeout_sec of the agents constructed
AgentTimeouts == {60, 160, 300}

Difficulties == {"easy", "medium", "hard", "extreme"}

TaskTypes == DOMAIN HISTORICAL_BENEFIT \cup {"mathematical", "sysadmin"}

\* what environment.exec returns for the droid command
\* s repeated n times
RECURSIVE Repeated(_, _)
Repeated(s, n) == IF n = 0 THEN "" ELSE s \o Repeated(s, n - 1)

\* an error line longer than the excerpt the prompt keeps
LongErrorLine == "E: failed to fetch " \o Repeated("/pool/main", 50) \o " [tail]"

Results ==
    {[exit_code |-> 0, stdout |-> "Task complete", stderr |-> ""],
     [exit_code |-> 0, stdout |-> "ok", stderr |-> "Traceback (most recent call last)"],
     [exit_code |-> 0, stdout |-> "step 1\nError: Unknown option -x\nstep 3", stderr |-> ""],
     [exit_code |-> 1, stdout |-> "", stderr |-> "bash: hashcat: command not found"],
     [exit_code |-> 1, stdout |-> "Permission denied", stderr |-> ""],
     [exit_code |-> 1, stdout |-> "", stderr |-> ""]}

\* outputs of a build: a denied copy reported on stdout with exit code 0, and
\* a failed package download
BuildResults ==
    {[exit_code |-> 0, stdout |-> "cp: cannot create regular file: Permission denied",
      stderr |-> ""],
     [exit_code |-> 1, stdout |-> "", stderr |-> LongErrorLine]}

\* what the droid command can return for an instruction: the build outputs
\* are considered for the build task only
DroidResults(instr) ==
    IF instr = "Compile the project with make" THEN Results \cup BuildResults ELSE Results

\* before the first droid command has returned
NoResult == [exit_code |-> 0, stdout |-> "", stderr |-> "", none |-> TRUE]

\* the error excerpts a failed turn can leave
ErrorTexts == {UAMAgent_extract_error(r.stdout \o r.stderr) : r \in Results}

\* what _gather_env_info returns when it runs
EnvInfos == {"", "# Working directory\n/app"}

NoCall == [fn |-> "none"]

-----------------------------------------------------------------------------
\* no SuperGeniusAgent has been constructed
NoClassification ==
    [name |-> "", category |-> "", pre_hooks |-> <<>>, post_hook_context |-> "",
     use_extended_thinking |-> FALSE, time_budget_ratio |-> 0]

NoSuperGenius ==
    /\ enable_pre_hooks = TRUE
    /\ enable_planning = TRUE
    /\ task_classification = NoClassification
    /\ pre_hook_context = ""
    /\ pending = <<>>
    /\ info_parts = <<>>
    /\ turn = 0
    /\ current_prompt = ""
    /\ response_text = ""
    /\ commands = <<>>
    /\ all_output = <<>>
    /\ context_metadata = [x \in {} |-> 0]
    /\ tasks_run = 0
    /\ chat = [script |-> <<>>, calls |-> <<>>]
    /\ environment = [profile |-> "", calls |-> <<>>]

(* UAMAgent.run *)

\* the keys of the decision passed to context.add_metadata
LoggedDecision(decision) ==
    [level |-> decision.level, reason |-> decision.reason,
     task_type |-> decision.task_type, time_pressure |-> decision.time_pressure,
     historical_benefit |-> decision.historical_benefit]

Init ==
    /\ pc = "start"
    /\ instruction \in Instructions
    /\ timeout_sec \in AgentTimeouts
    /\ max_turns \in 0..MaxTurns
    /\ use_memory \in BOOLEAN
    /\ context_decision = None
    /\ task_category = "general"
    /\ memory_context = ""
    /\ env_info = ""
    /\ prev_error = ""
    /\ current_context_level = "unset"
    /\ attempt = 0
    /\ prompt = ""
    /\ turns = <<>>
    /\ result = NoResult
    /\ metadata = [context_decision |-> LoggedDecision(None), all_attempts_failed |-> FALSE]
    /\ NoSuperGenius
    /\ call = NoCall

\* Phase 1: classification and decision
Decide ==
    /\ pc = "start"
    /\ context_decision' = decide_context_level(instruction, timeout_sec, DefaultDifficulty)
    /\ task_category' = context_decision'.task_type
    /\ metadata' = [metadata EXCEPT !.context_decision = LoggedDecision(context_decision')]
    /\ pc' = "bootstrap"
    /\ UNCHANGED sgVars
    /\ UNCHANGED <<instruction, timeout_sec, max_turns, use_memory, memory_context,
                   env_info, prev_error, current_context_level, attempt, prompt,
                   turns, result, call>>

\* Phases 2 and 3: environment bootstrapping, context generation, loop entry
Bootstrap ==
    /\ pc = "bootstrap"
    /\ IF context_decision.level # "none" /\ context_decision.time_pressure # "critical"
       THEN env_info' \in EnvInfos
       ELSE env_info' = ""
    /\ memory_context' = IF use_memory THEN generate_context(context_decision) ELSE ""
    /\ prev_error' = ""
    /\ current_context_level' = context_decision.level
    /\ attempt' = 1
    /\ pc' = "turn"
    /\ UNCHANGED sgVars
    /\ UNCHANGED <<instruction, timeout_sec, max_turns, use_memory, context_decision,
                   task_category, prompt, turns, result, metadata, call>>

\* Faulty variant of UAMAgent_in_range: one turn too many
UAMAgent_in_range_inclusive(att, maxTurns) == 1 <= att /\ att <= maxTurns + 1

\* for attempt in range(1, self._max_turns + 1)
UAMAgent_in_range(att, maxTurns) == 1 <= att /\ att < maxTurns + 1

\* Head of a turn: escalation step, prompt assembly, prompt file written
BuildPrompt ==
    /\ pc = "turn"
    /\ UAMAgent_in_range(attempt, max_turns)
    /\ \E level \in {UAMAgent_escalated_level(instruction, attempt, prev_error,
                                               current_context_level)} :
          /\ current_context_level' = level
          /\ memory_context' =
                 IF level # current_context_level
                 THEN generate_context(
                          UAMAgent_escalated_decision(instruction, level,
                                                      context_decision, task_category))
                 ELSE memory_context
    /\ prompt' = UAMAgent_build_prompt(instruction, attempt, prev_error, env_info,
                                       task_category, memory_context', max_turns)
    /\ pc' = "dispatch"
    /\ UNCHANGED sgVars
    /\ UNCHANGED <<instruction, timeout_sec, max_turns, use_memory, context_decision,
                   task_category, env_info, prev_error, attempt, turns, result,
                   metadata, call>>

\* Faulty variant of Dispatch: the loop goes on after a successful turn
Dispatch_no_return ==
    /\ pc = "dispatch"
    /\ result' \in DroidResults(instruction)
    /\ turns' = Append(turns,
           [prompt |-> prompt, response |-> result'.stdout, attempt |-> attempt,
            category |-> task_category, context_level |-> current_context_level,
            memory_used |-> (use_memory /\ current_context_level # "none"),
            exit_code |-> result'.exit_code])
    /\ prev_error' = UAMAgent_extract_error(result'.stdout \o result'.stderr)
    /\ attempt' = attempt + 1
    /\ pc' = "turn"
    /\ UNCHANGED sgVars
    /\ UNCHANGED <<instruction, timeout_sec, max_turns, use_memory, context_decision,
                   task_category, memory_context, env_info, current_context_level,
                   prompt, metadata, call>>

\* Faulty variant of Dispatch: the error excerpt of the first failure is kept
Dispatch_stale_error ==
    /\ pc = "dispatch"
    /\ result' \in DroidResults(instruction)
    /\ turns' = Append(turns,
           [prompt |-> prompt, response |-> result'.stdout, attempt |-> attempt,
            category |-> task_category, context_level |-> current_context_level,
            memory_used |-> (use_memory /\ current_context_level # "none"),
            exit_code |-> result'.exit_code])
    /\ IF UAMAgent_turn_succeeded(result')
       THEN /\ pc' = "success"
            /\ UNCHANGED <<prev_error, attempt>>
       ELSE /\ prev_error' = IF attempt = 1
                             THEN UAMAgent_extract_error(result'.stdout \o result'.stderr)
                             ELSE prev_error
            /\ attempt' = attempt + 1
            /\ pc' = "turn"
    /\ UNCHANGED sgVars
    /\ UNCHANGED <<instruction, timeout_sec, max_turns, use_memory, context_decision,
                   task_category, memory_context, env_info, current_context_level,
                   prompt, metadata, call>>

\* The droid command returns: the turn is recorded and observed
Dispatch ==
    /\ pc = "dispatch"
    /\ result' \in DroidResults(instruction)
    /\ turns' = Append(turns,
           [prompt |-> prompt, response |-> result'.stdout, attempt |-> attempt,
            category |-> task_category, context_level |-> current_context_level,
            memory_used |-> (use_memory /\ current_context_level # "none"),
            exit_code |-> result'.exit_code])
    /\ IF UAMAgent_turn_succeeded(result')
       THEN /\ pc' = "success"
            /\ UNCHANGED <<prev_error, attempt>>
       ELSE /\ prev_error' = UAMAgent_extract_error(result'.stdout \o result'.stderr)
            /\ attempt' = attempt + 1
            /\ pc' = "turn"
    /\ UNCHANGED sgVars
    /\ UNCHANGED <<instruction, timeout_sec, max_turns, use_memory, context_decision,
                   task_category, memory_context, env_info, current_context_level,
                   prompt, metadata, call>>

\* environment.exec raises (a timeout, a lost container): run has no handler
ExecRaises ==
    /\ pc = "dispatch"
    /\ pc' = "raised"
    /\ UNCHANGED sgVars
    /\ UNCHANGED <<instruction, timeout_sec, max_turns, use_memory, context_decision,
                   task_category, memory_context, env_info, prev_error,
                   current_context_level, attempt, prompt, turns, result, metadata,
                   call>>

\* Faulty variant of Exhaust: the failure is not reported
Exhaust_unmarked ==
    /\ pc = "turn"
    /\ ~UAMAgent_in_range(attempt, max_turns)
    /\ pc' = "exhausted"
    /\ UNCHANGED sgVars
    /\ UNCHANGED <<instruction, timeout_sec, max_turns, use_memory, context_decision,
                   task_category, memory_context, env_info, prev_error,
                   current_context_level, attempt, prompt, turns, result, metadata,
                   call>>

\* The loop is over without a success
Exhaust ==
    /\ pc = "turn"
    /\ ~UAMAgent_in_range(attempt, max_turns)
    /\ metadata' = [metadata EXCEPT !.all_attempts_failed = TRUE]
    /\ pc' = "exhausted"
    /\ UNCHANGED sgVars
    /\ UNCHANGED <<instruction, timeout_sec, max_turns, use_memory, context_decision,
                   task_category, memory_context, env_info, prev_error,
                   current_context_level, attempt, prompt, turns, result, call>>

NextReturns == Decide \/ Bootstrap \/ BuildPrompt \/ Dispatch \/ Exhaust

Next == NextReturns \/ ExecRaises

Spec == Init /\ [][Next]_vars

\* ENABLED <<NextReturns>>_vars, from the guards of Decide, Bootstrap,
\* BuildPrompt, Exhaust and Dispatch (each of them changes pc)
EnabledReturns ==
    \/ pc = "start"
    \/ pc = "bootstrap"
    \/ pc = "turn" /\ UAMAgent_in_range(attempt, max_turns)
    \/ pc = "turn" /\ ~UAMAgent_in_range(attempt, max_turns)
    \/ pc = "dispatch"

\* WF_vars(NextReturns): the event loop resumes the coroutine whenever the
\* environment.exec call it awaits has returned
FairReturns == []<>(~EnabledReturns) \/ []<><<NextReturns>>_vars

\* every environment.exec call returns
SpecReturns == Init /\ [][NextReturns]_vars /\ FairReturns

-----------------------------------------------------------------------------
(* Calls of the pure functions of HybridAdaptiveContext *)

CallRecord(fn, instr, timeout, difficulty, task_type, error) ==
    [fn |-> fn, instr |-> instr, timeout |-> timeout, difficulty |-> difficulty,
     task_type |-> task_type, error |-> error,
     done |-> FALSE, ret |-> "", decision |-> None, context |-> ""]

CallInputs ==
    {CallRecord("assess_time_pressure", "", t, d, c, "") :
        t \in 1..MaxTimeout, d \in Difficulties, c \in TaskTypes}
    \cup {CallRecord("decide_context_level", i, t, d, "", "") :
        i \in Instructions, t \in 1..MaxTimeout, d \in Difficulties}
    \cup {CallRecord("get_progressive_levels", i, 0, "", "", e) :
        i \in Instructions, e \in ErrorTexts}

InitCalls ==
    /\ pc = "call"
    /\ call \in CallInputs
    /\ instruction = ""
    /\ timeout_sec = DefaultTimeoutSec
    /\ max_turns = 0
    /\ use_memory = TRUE
    /\ context_decision = None
    /\ task_category = "general"
    /\ memory_context = ""
    /\ env_info = ""
    /\ prev_error = ""
    /\ current_context_level = "unset"
    /\ attempt = 0
    /\ prompt = ""
    /\ turns = <<>>
    /\ result = NoResult
    /\ metadata = [context_decision |-> LoggedDecision(None), all_attempts_failed |-> FALSE]
    /\ NoSuperGenius

CallAssess ==
    /\ call.fn = "assess_time_pressure" /\ ~call.done
    /\ call' = [call EXCEPT !.done = TRUE,
                   !.ret = assess_time_pressure(call.timeout, call.task_type,
                                                call.difficulty)]
    /\ UNCHANGED runVars

CallDecide ==
    /\ call.fn = "decide_context_level" /\ ~call.done
    /\ call' = [call EXCEPT !.done = TRUE,
                   !.decision = decide_context_level(call.instr, call.timeout,
                                                     call.difficulty)]
    /\ UNCHANGED runVars

\* generate_context applied to the decision just returned
CallGenerate ==
    /\ call.fn = "decide_context_level" /\ call.done
    /\ call' = [call EXCEPT !.fn = "generate_context",
                   !.context = generate_context(call.decision)]
    /\ UNCHANGED runVars

CallProgressive ==
    /\ call.fn = "get_progressive_levels" /\ ~call.done
    /\ call' = [call EXCEPT !.done = TRUE,
                   !.ret = get_progressive_levels(call.instr, call.error)]
    /\ UNCHANGED runVars

NextCalls == CallAssess \/ CallDecide \/ CallGenerate \/ CallProgressive

SpecCalls == InitCalls /\ [][NextCalls]_vars

-----------------------------------------------------------------------------
(* Properties *)

LevelSet == {ContextLevels[k] : k \in 1..Len(ContextLevels)}

\* one step along none -> minimal -> full, full being terminal
OneStepUp(level) ==
    IF level = "full" THEN "full" ELSE ContextLevels[LevelIndex(level) + 1]

\* the low-benefit categories
LowBenefit ==
    {"reasoning", "scheduling", "constraint-satisfaction", "games", "pure-logic",
     "mathematical"}

\* the turn record k of the history is a success
TurnRecordSucceeded(k) ==
    turns[k].exit_code = 0 /\ ~UAMAgent_looks_like_error(turns[k].response)

\* the step that opens a retry turn
RetryStep == pc = "turn" /\ pc' = "dispatch" /\ attempt > 1

\* C1: in UAMAgent.run, for a task of a non-low-benefit category, a retry after
\* a failed turn whose error excerpt contains a 'guidance might help' marker
\* uses the level one step higher in none -> minimal -> full (full stays full).
C1_EscalatesOneStep ==
    [][(/\ RetryStep
        /\ task_category \notin LowBenefit
        /\ context_might_help(prev_error))
       => current_context_level' = OneStepUp(current_context_level)]_vars

\* C2: across the turns of one run the context level is non-decreasing in
\* none < minimal < full, never exceeds full and is never reset to a lower level.
C2_LevelMonotone ==
    pc \notin {"start", "bootstrap"} =>
        /\ current_context_level \in LevelSet
        /\ \A k \in 1..Len(turns) :
              /\ turns[k].context_level \in LevelSet
              /\ LevelIndex(turns[k].context_level) <= LevelIndex(current_context_level)
              /\ \A j \in 1..(k - 1) :
                    LevelIndex(turns[j].context_level) <= LevelIndex(turns[k].context_level)

\* a second turn was opened at a level above none after a failure with a marker
C2_Witness ==
    /\ pc = "dispatch"
    /\ attempt >= 2
    /\ context_might_help(prev_error)
    /\ turns[1].context_level = "full"
    /\ current_context_level = "full"

\* C3: for an instruction classified into a low-benefit category,
\* get_progressive_levels returns only 'none' whatever error text a failed turn
\* has left, and the context level of the run is none at every turn.
C3_LowBenefitNeverEscalates ==
    (pc # "start" /\ task_category \in LowBenefit) =>
        /\ get_progressive_levels(instruction, prev_error) = <<"none">>
        /\ current_context_level \in {"unset", "none"}
        /\ \A k \in 1..Len(turns) : turns[k].context_level = "none"

\* a low-benefit task whose turns all failed, the last one with a marker
C3_Witness ==
    /\ pc = "exhausted"
    /\ task_category \in LowBenefit
    /\ Len(turns) >= 2
    /\ context_might_help(prev_error)
    /\ current_context_level = "none"

\* C4: when the error excerpt of the failed turn contains no marker, the level
\* and the guidance content of the next turn are those of the failed turn.
C4_NoMarkerNoChange ==
    [][(RetryStep /\ ~context_might_help(prev_error))
       => /\ current_context_level' = current_context_level
          /\ memory_context' = memory_context]_vars

\* a retry turn opened after a failure without a marker, below the full level
C4_Witness ==
    /\ pc = "dispatch"
    /\ attempt >= 2
    /\ prev_error = "Permission denied"
    /\ task_category \notin LowBenefit
    /\ current_context_level = "minimal"
    /\ memory_context # ""

\* the rule chain of the decision, first matching rule first
ReferenceLevel(instr, timeout, difficulty) ==
    LET category == classify_task(instr)
        pressure == assess_time_pressure(timeout, category, difficulty)
        overhead == calculate_overhead(select_relevant_sections(instr, category))
    IN  IF category \in LowBenefit THEN "none"
        ELSE IF get_historical_benefit(category) < 10 THEN "none"
        ELSE IF pressure = "critical" THEN "none"
        ELSE IF pressure = "high" \/ 10 * overhead > timeout * 1000 THEN "minimal"
        ELSE "full"

Decided == call.fn \in {"decide_context_level", "generate_context"} /\ call.done

\* C5: decide_context_level returns the level of the rule chain: low-benefit
\* category -> none; benefit < 0.1 -> none; critical pressure -> none; high
\* pressure or overhead ratio > 0.1 -> minimal; else full.
C5_RuleChain ==
    Decided => call.decision.level = ReferenceLevel(call.instr, call.timeout, call.difficulty)

\* a decision of level minimal taken under high pressure with a small overhead
C5_Witness ==
    /\ Decided
    /\ call.decision.level = "minimal"
    /\ call.decision.time_pressure = "high"
    /\ 10 * calculate_overhead(select_relevant_sections(call.instr, call.decision.task_type))
           <= call.timeout * 1000

BothKeywordGroups(instr) ==
    /\ ContainsAny(Lower(instr), SKIP_UAM_KEYWORDS)
    /\ ContainsAny(Lower(instr), HIGH_BENEFIT_KEYWORDS)

\* C6: an instruction with a skip keyword and a high-benefit keyword is
\* classified into a low-benefit category and decided as level none with no
\* sections and the pure-reasoning reason, for every timeout and difficulty.
C6_SkipKeywordDominates ==
    (Decided /\ BothKeywordGroups(call.instr)) =>
        /\ classify_task(call.instr) \in LowBenefit
        /\ call.decision.task_type = classify_task(call.instr)
        /\ call.decision.level = "none"
        /\ call.decision.sections = <<>>
        /\ call.decision.reason =
               "Task type '" \o classify_task(call.instr)
                   \o "' is pure reasoning - UAM adds no benefit"

\* such an instruction decided with a timeout that leaves no time pressure
C6_Witness ==
    /\ Decided
    /\ call.instr = "Schedule a meeting and hash the password"
    /\ call.timeout = DefaultTimeoutSec
    /\ call.decision.task_type = "scheduling"

\* C7: every decision of level none has no sections and an estimated overhead
\* of 0, and the guidance text generated from it is empty.
C7_NoneHasNoOverhead ==
    (Decided /\ call.decision.level = "none") =>
        /\ call.decision.sections = <<>>
        /\ call.decision.estimated_overhead_ms = 0
        /\ call.fn = "generate_context" => call.context = ""

\* a none decision taken for critical pressure on an instruction with section keywords
C7_Witness ==
    /\ call.fn = "generate_context"
    /\ call.decision.level = "none"
    /\ call.decision.time_pressure = "critical"
    /\ select_relevant_sections(call.instr, call.decision.task_type) # <<>>

\* C8: every decision of level minimal or full has a non-empty section list.
C8_SectionsNonEmpty ==
    (Decided /\ call.decision.level \in {"minimal", "full"}) =>
        Len(call.decision.sections) >= 1

\* a minimal decision for an instruction without section keyword or default section
C8_Witness ==
    /\ Decided
    /\ call.decision.level = "minimal"
    /\ select_relevant_sections(call.instr, call.decision.task_type) = <<>>
    /\ call.decision.sections = <<"coding">>

\* twice the expected duration, with the defaults 60 and 1.0 for unknown keys
Expected2(task_type, difficulty) ==
    (IF task_type \in {"security", "file-ops", "legacy", "coding", "debugging",
                       "scheduling", "games", "constraint-satisfaction",
                       "pure-logic", "reasoning", "general"}
     THEN base_duration(task_type) ELSE 60)
    * (IF difficulty \in {"easy", "medium", "hard"}
       THEN difficulty_mult2(difficulty) ELSE 2)

\* C9: with ratio = timeout / expected duration, assess_time_pressure returns
\* critical iff ratio < 1.2, high iff 1.2 <= ratio < 1.5, medium iff
\* 1.5 <= ratio < 2.0 and low iff ratio >= 2.0.
C9_ThresholdLadder ==
    (call.fn = "assess_time_pressure" /\ call.done) =>
        LET t20 == 20 * call.timeout
            e2 == Expected2(call.task_type, call.difficulty)
        IN  /\ call.ret = "critical" <=> t20 < 12 * e2
            /\ call.ret = "high" <=> (12 * e2 <= t20 /\ t20 < 15 * e2)
            /\ call.ret = "medium" <=> (15 * e2 <= t20 /\ t20 < 20 * e2)
            /\ call.ret = "low" <=> 20 * e2 <= t20

\* the boundary ratio 1.2 with an unknown category and an unknown difficulty
C9_Witness ==
    /\ call.fn = "assess_time_pressure" /\ call.done
    /\ call.task_type = "sysadmin" /\ call.difficulty = "extreme"
    /\ call.timeout = 72
    /\ call.ret = "high"

C10_Bounded ==
    /\ Len(turns) <= max_turns
    /\ \A k \in 1..Len(turns) : turns[k].attempt = k
    /\ pc = "success" =>
          /\ Len(turns) \in 1..max_turns
          /\ TurnRecordSucceeded(Len(turns))
          /\ \A k \in 1..(Len(turns) - 1) : ~TurnRecordSucceeded(k)
    /\ pc = "exhausted" =>
          /\ Len(turns) = max_turns
          /\ \A k \in 1..Len(turns) : ~TurnRecordSucceeded(k)

\* C10: when every environment.exec call returns, UAMAgent.run terminates: at most
\* max_turns turns with the indices 1, 2, ... in order, ending in success at
\* a turn t <= max_turns or in exhaustion after exactly max_turns failed turns.
C10_Terminates ==
    []C10_Bounded /\ <>(pc \in {"success", "exhausted"})

\* an exhausted run that used its whole budget of several turns
C10_Witness ==
    /\ pc = "exhausted"
    /\ max_turns >= 2
    /\ Len(turns) = max_turns

-----------------------------------------------------------------------------
(* SuperGeniusAgent._extract_bash_commands of                              *)
(* src/src/uam_harbor/supergenius_agent.py.  The backquote of a code fence *)
(* is written as an apostrophe, as in the prompt texts.                    *)

StartsWith(s, p) == Len(s) >= Len(p) /\ SubSeq(s, 1, Len(p)) = p

\* first position i >= from where kw occurs in s, 0 when there is none
IndexFrom(s, kw, from) ==
    LET at == {i \in from..(Len(s) - Len(kw) + 1) : SubSeq(s, i, i + Len(kw) - 1) = kw}
    IN  IF at = {} THEN 0 ELSE CHOOSE i \in at : \A j \in at : i <= j

\* Python: s.count("\n")
CountNewlines(s) == Cardinality({i \in 1..Len(s) : SubSeq(s, i, i) = "\n"})

\* re.findall(r'<bash>\s*(.*?)\s*</bash>', text, re.DOTALL) from position from:
\* the text between each <bash> and the first </bash> after it, without the
\* white space at both ends
RECURSIVE bash_xml(_, _)
bash_xml(text, from) ==
    LET open == IndexFrom(text, "<bash>", from)
        close == IF open = 0 THEN 0 ELSE IndexFrom(text, "</bash>", open + 6)
    IN  IF open = 0 \/ close = 0 THEN <<>>
        ELSE <<Strip(SubSeq(text, open + 6, close - 1))>> \o bash_xml(text, close + 7)

\* the lines of a block, stripped, without the empty and the comment lines
RECURSIVE command_lines(_)
command_lines(lines) ==
    IF lines = <<>> THEN <<>>
    ELSE LET line == Strip(Head(lines))
         IN  (IF line # "" /\ ~StartsWith(line, "#") THEN <<line>> ELSE <<>>)
                 \o command_lines(Tail(lines))

\* Faulty variant of block_commands: every block is split into lines
block_commands_always_split(blk) ==
    IF Strip(blk) = "" THEN <<>> ELSE command_lines(SplitLines(Strip(blk)))

\* the commands of one <bash> block
block_commands(blk) ==
    LET block == Strip(blk)
    IN  IF block = "" THEN <<>>
        ELSE IF Contains(block, "EOF") \/ CountNewlines(block) = 0
        THEN <<block>>
        ELSE command_lines(SplitLines(block))

RECURSIVE FlatMap(_, _)
FlatMap(Op(_), xs) == IF xs = <<>> THEN <<>> ELSE Op(Head(xs)) \o FlatMap(Op, Tail(xs))

\* Pattern 0
xml_commands(text) == FlatMap(block_commands, bash_xml(text, 1))

Fence == "'''"

\* length of what (?:bash|sh)?\n matches at position i of text, 0 when it fails
FenceHeader(text, i) ==
    IF SubSeq(text, i, Min(i + 4, Len(text))) = "bash\n" THEN 5
    ELSE IF SubSeq(text, i, Min(i + 2, Len(text))) = "sh\n" THEN 3
    ELSE IF SubSeq(text, i, Min(i, Len(text))) = "\n" THEN 1
    ELSE 0

\* re.findall of fence, (?:bash|sh)?\n, (.*?), fence with re.DOTALL, from
\* position from
RECURSIVE bash_blocks(_, _)
bash_blocks(text, from) ==
    LET opens == {i \in from..(Len(text) - 2) :
                     SubSeq(text, i, i + 2) = Fence /\ FenceHeader(text, i + 3) > 0}
    IN  IF opens = {} THEN <<>>
        ELSE LET open == CHOOSE i \in opens : \A j \in opens : i <= j
                 start == open + 3 + FenceHeader(text, open + 3)
                 close == IndexFrom(text, Fence, start)
             IN  IF close = 0 THEN <<>>
                 ELSE <<SubSeq(text, start, close - 1)>> \o bash_blocks(text, close + 3)

\* line[2:] when the line starts with the prompt marker
WithoutPrompt(line) == IF StartsWith(line, "$ ") THEN SubSeq(line, 3, Len(line)) ELSE line

RECURSIVE MapSeq(_, _)
MapSeq(Op(_), xs) == IF xs = <<>> THEN <<>> ELSE <<Op(Head(xs))>> \o MapSeq(Op, Tail(xs))

fenced_block_commands(blk) == MapSeq(WithoutPrompt, command_lines(SplitLines(Strip(blk))))

\* Pattern 1
fenced_commands(text) == FlatMap(fenced_block_commands, bash_blocks(text, 1))

RECURSIVE prompt_lines(_)
prompt_lines(lines) ==
    IF lines = <<>> THEN <<>>
    ELSE LET line == Strip(Head(lines))
         IN  (IF StartsWith(line, "$ ") THEN <<SubSeq(line, 3, Len(line))>> ELSE <<>>)
                 \o prompt_lines(Tail(lines))

\* Pattern 2
prompt_commands(text) == prompt_lines(SplitLines(text))

\* Faulty variant of first_non_empty: the passes are added up
all_passes(xml, fenced, prompted) == xml \o fenced \o prompted

\* if commands: return commands, after each pass
first_non_empty(xml, fenced, prompted) ==
    IF xml # <<>> THEN xml ELSE IF fenced # <<>> THEN fenced ELSE prompted

SuperGenius_extract_bash_commands(text) ==
    first_non_empty(xml_commands(text), fenced_commands(text), prompt_commands(text))

-----------------------------------------------------------------------------
(* Observation of a turn, end of the loop, retry prompt *)

\* the failure patterns of a turn's output
ObservedFailurePatterns ==
    <<"error:", "Error:", "ERROR:", "failed", "Failed", "FAILED", "Traceback",
      "command not found", "No such file or directory", "Permission denied">>

\* a droid command has returned and its turn has just been observed
JustObserved == pc \in {"turn", "success"} /\ Len(turns) > 0

\* C11: in UAMAgent.run a turn is observed as a success exactly when its exit
\* code is zero and stdout together with stderr contains no failure pattern
\* (error:, Traceback, command not found, No such file or directory,
\* Permission denied among them).
C11_SuccessIffCleanOutput ==
    JustObserved =>
        ((pc = "success") <=>
            (/\ result.exit_code = 0
             /\ ~ContainsAny(result.stdout \o result.stderr, ObservedFailurePatterns)))

\* the last recorded turn is a success
LastTurnSucceeded == Len(turns) > 0 /\ TurnRecordSucceeded(Len(turns))

\* C12: once a turn of UAMAgent.run is observed as a success the loop is over
\* at that turn: no later prompt is built, no later call is issued, the
\* context level stays, and the run is not marked all_attempts_failed.
C12_SuccessEndsLoop ==
    /\ [](LastTurnSucceeded =>
            /\ pc = "success"
            /\ Len(turns) = attempt
            /\ ~metadata.all_attempts_failed)
    /\ [][LastTurnSucceeded =>
            /\ pc' = "success"
            /\ UNCHANGED <<prompt, turns, result, attempt, current_context_level,
                           memory_context>>
            /\ ~metadata'.all_attempts_failed]_vars

\* a success at the second turn with a turn left
C12_Witness ==
    /\ pc = "success"
    /\ Len(turns) = 2
    /\ max_turns = 3
    /\ ~TurnRecordSucceeded(1)

\* every turn the loop allows has been run and has failed
AllTurnsFailed ==
    /\ pc \in {"turn", "dispatch", "success", "exhausted", "raised"}
    /\ Len(turns) = max_turns
    /\ \A k \in 1..Len(turns) : ~TurnRecordSucceeded(k)

\* C14: when all max_turns turns of UAMAgent.run fail by exit code or failure
\* pattern the run returns without raising, marked all_attempts_failed, with
\* exactly max_turns turn records in turn order.
C14_ExhaustionIsReported ==
    /\ [](AllTurnsFailed =>
            /\ pc \in {"turn", "exhausted"}
            /\ \A k \in 1..Len(turns) : turns[k].attempt = k
            /\ (pc = "exhausted") <=> metadata.all_attempts_failed)
    /\ [](pc = "exhausted" => AllTurnsFailed)
    /\ [][AllTurnsFailed =>
            /\ pc' = "exhausted"
            /\ metadata'.all_attempts_failed
            /\ turns' = turns]_vars

\* three failed turns, reported
C14_Witness ==
    /\ pc = "exhausted"
    /\ max_turns = 3
    /\ Len(turns) = 3
    /\ metadata.all_attempts_failed

\* C17: in UAMAgent.run a call of turn t < max_turns that runs into its
\* timeout counts as a failed observation of turn t: whatever the call does,
\* the run either succeeds at t or goes on to turn t + 1.
C17_TimeoutFeedsRetry ==
    [][(pc = "dispatch" /\ attempt < max_turns) =>
          \/ pc' = "success"
          \/ pc' = "turn" /\ attempt' = attempt + 1]_vars

\* Position of the last occurrence of kw in s, 0 when there is none
LastIndexOf(s, kw) ==
    LET at == {i \in 1..(Len(s) - Len(kw) + 1) : SubSeq(s, i, i + Len(kw) - 1) = kw}
    IN  IF at = {} THEN 0 ELSE CHOOSE i \in at : \A j \in at : j <= i

\* the final reminders layer of a prompt
RemindersLayer(p) == SubSeq(p, LastIndexOf(p, "## CRITICAL REMINDERS"), Len(p))

\* the error excerpt extracted from the last droid result
LastExcerpt == UAMAgent_extract_error(result.stdout \o result.stderr)

RetryInstruction == "**Try a different approach. Do not repeat failed commands.**"

\* the prompt of turn 1 has no retry part
FirstPromptIsPlain ==
    (pc = "dispatch" /\ attempt = 1) =>
        /\ ~Contains(RemindersLayer(prompt), "Previous attempt failed")
        /\ ~Contains(RemindersLayer(prompt), "Error: ")
        /\ ~Contains(RemindersLayer(prompt), RetryInstruction)

\* C18 as stated: for every turn t > 1 the reminders layer of the prompt holds
\* the error excerpt extracted from turn t-1 and the instruction not to repeat
\* the failed approach; the prompt of turn 1 holds neither.
C18_PromptCarriesExcerpt ==
    /\ FirstPromptIsPlain
    /\ (pc = "dispatch" /\ attempt > 1) =>
           /\ Contains(RemindersLayer(prompt), LastExcerpt)
           /\ Contains(RemindersLayer(prompt), RetryInstruction)

\* C18 amended: the reminders layer holds the first 500 characters of the
\* excerpt of turn t-1 (as an 'Error:' line, none when the excerpt is empty)
\* followed by the instruction not to repeat the failed approach.
C18_PromptCarriesExcerptHead ==
    /\ FirstPromptIsPlain
    /\ (pc = "dispatch" /\ attempt > 1) =>
           /\ Contains(RemindersLayer(prompt), "Previous attempt failed.\n"
                  \o (IF LastExcerpt = "" THEN ""
                      ELSE "Error: "
                           \o SubSeq(LastExcerpt, 1, Min(Len(LastExcerpt), ErrorExcerptLimit))
                           \o "\n")
                  \o RetryInstruction)

\* the prompt of turn 3 after a failure with a long error line at turn 2
C18_Witness ==
    /\ pc = "dispatch"
    /\ attempt = 3
    /\ Len(LastExcerpt) > ErrorExcerptLimit
    /\ turns[1].exit_code = 0

-----------------------------------------------------------------------------
(* Calls of _extract_bash_commands on responses put together from pieces *)

MaxFragments == 2

\* pieces of a response: prose, <bash> blocks (with the text between the
\* tags), fenced blocks and prompt lines, each with the commands it holds
Fragments ==
    <<[kind |-> "prose", text |-> "I will list the files.\n", content |-> "",
       commands |-> <<>>],
      [kind |-> "prose", text |-> "Task complete.\n", content |-> "",
       commands |-> <<>>],
      [kind |-> "xml", text |-> "<bash>ls -la</bash>\n", content |-> "ls -la",
       commands |-> <<"ls -la">>],
      [kind |-> "xml", text |-> "<bash>\n  ls -la /app\n</bash>\n",
       content |-> "\n  ls -la /app\n", commands |-> <<"ls -la /app">>],
      [kind |-> "xml", text |-> "<bash>\ncd /app\n  # build\n\nmake\n</bash>\n",
       content |-> "\ncd /app\n  # build\n\nmake\n", commands |-> <<"cd /app", "make">>],
      [kind |-> "xml", text |-> "<bash>\ncat > f.txt << EOF\n# hello\n\nEOF\n</bash>\n",
       content |-> "\ncat > f.txt << EOF\n# hello\n\nEOF\n",
       commands |-> <<"cat > f.txt << EOF\n# hello\n\nEOF">>],
      [kind |-> "xml", text |-> "<bash>  </bash>\n", content |-> "  ",
       commands |-> <<>>],
      [kind |-> "xml", text |-> "<bash>\n# a\n# b\n</bash>\n", content |-> "\n# a\n# b\n",
       commands |-> <<>>],
      [kind |-> "xml", text |-> "<bash># only a comment</bash>\n",
       content |-> "# only a comment", commands |-> <<"# only a comment">>],
      [kind |-> "fenced", text |-> "'''bash\n$ pytest\n# note\necho ok\n'''\n",
       content |-> "$ pytest\n# note\necho ok\n", commands |-> <<"pytest", "echo ok">>],
      [kind |-> "fenced", text |-> "'''\nls /tmp\n'''\n", content |-> "ls /tmp\n",
       commands |-> <<"ls /tmp">>],
      [kind |-> "prompt", text |-> "$ whoami\n", content |-> "whoami",
       commands |-> <<"whoami">>]>>

\* the sequences of 1 to n pieces
RECURSIVE PartLists(_)
PartLists(n) ==
    IF n = 0 THEN {<<>>}
    ELSE PartLists(n - 1)
            \cup {Append(ps, k) : ps \in PartLists(n - 1), k \in 1..Len(Fragments)}

RECURSIVE TextOf(_)
TextOf(parts) == IF parts = <<>> THEN "" ELSE Fragments[Head(parts)].text \o TextOf(Tail(parts))

InitExtract ==
    /\ pc = "call"
    /\ call \in {[fn |-> "_extract_bash_commands", parts |-> ps, text |-> TextOf(ps),
                  done |-> FALSE, commands |-> <<>>] : ps \in PartLists(MaxFragments) \ {<<>>}}
    /\ instruction = ""
    /\ timeout_sec = DefaultTimeoutSec
    /\ max_turns = 0
    /\ use_memory = TRUE
    /\ context_decision = None
    /\ task_category = "general"
    /\ memory_context = ""
    /\ env_info = ""
    /\ prev_error = ""
    /\ current_context_level = "unset"
    /\ attempt = 0
    /\ prompt = ""
    /\ turns = <<>>
    /\ result = NoResult
    /\ metadata = [context_decision |-> LoggedDecision(None), all_attempts_failed |-> FALSE]
    /\ NoSuperGenius

CallExtract ==
    /\ call.fn = "_extract_bash_commands" /\ ~call.done
    /\ call' = [call EXCEPT !.done = TRUE,
                   !.commands = SuperGenius_extract_bash_commands(call.text)]
    /\ UNCHANGED runVars

SpecExtract == InitExtract /\ [][CallExtract]_vars

\* the commands held by the pieces of one kind, in order of appearance
RECURSIVE HeldBy(_, _)
HeldBy(kind, parts) ==
    IF parts = <<>> THEN <<>>
    ELSE (IF Fragments[Head(parts)].kind = kind THEN Fragments[Head(parts)].commands
          ELSE <<>>) \o HeldBy(kind, Tail(parts))

Extracted == call.fn = "_extract_bash_commands" /\ call.done

\* C19: the passes of _extract_bash_commands are tried in order and the first
\* that yields a command decides: <bash> blocks, else fenced blocks, else
\* prompt lines; the result never mixes them and keeps the order of appearance.
C19_FirstTierWins ==
    Extracted =>
        LET xml == HeldBy("xml", call.parts)
            fenced == HeldBy("fenced", call.parts)
            prompted == HeldBy("prompt", call.parts)
        IN  /\ xml # <<>> => call.commands = xml
            /\ (xml = <<>> /\ fenced # <<>>) => call.commands = fenced
            /\ (xml = <<>> /\ fenced = <<>>) => call.commands = prompted

\* a response with a fenced block followed by a prompt line: the block decides
C19_Witness ==
    /\ Extracted
    /\ Len(call.parts) = 2
    /\ Fragments[call.parts[1]].kind = "fenced"
    /\ Fragments[call.parts[2]].kind = "prompt"
    /\ call.commands = Fragments[call.parts[1]].commands

\* what C20 says one <bash> block yields
OneCommandOrLines(fragment) ==
    LET trimmed == Strip(fragment.content)
    IN  IF CountNewlines(trimmed) = 0 \/ Contains(trimmed, "EOF")
        THEN <<trimmed>>
        ELSE fragment.commands

\* the same for a block with something between its tags
OneCommandOrLinesNonEmpty(fragment) ==
    IF Strip(fragment.content) = "" THEN <<>> ELSE OneCommandOrLines(fragment)

RECURSIVE BlocksYield(_, _)
BlocksYield(Op(_), parts) ==
    IF parts = <<>> THEN <<>>
    ELSE (IF Fragments[Head(parts)].kind = "xml" THEN Op(Fragments[Head(parts)]) ELSE <<>>)
            \o BlocksYield(Op, Tail(parts))

OnlyBlocks(parts) == \A k \in 1..Len(parts) : Fragments[parts[k]].kind \in {"xml", "prose"}

\* C20 as stated: a <bash> block yields exactly one command, its trimmed
\* content, when that has no internal newline or contains the heredoc
\* terminator EOF, and otherwise one command per non-empty, non-comment
\* trimmed line, in line order.
C20_BlockIsOneCommandOrLines ==
    (Extracted /\ OnlyBlocks(call.parts)) =>
        call.commands = BlocksYield(OneCommandOrLines, call.parts)

\* C20 amended: the same for a block whose trimmed content is not empty; a
\* block with nothing but white space between its tags yields no command.
C20_NonEmptyBlockIsOneCommandOrLines ==
    (Extracted /\ OnlyBlocks(call.parts)) =>
        call.commands = BlocksYield(OneCommandOrLinesNonEmpty, call.parts)

\* a heredoc block kept whole, after a block split into its lines
C20_Witness ==
    /\ Extracted
    /\ Len(call.parts) = 2
    /\ Len(Fragments[call.parts[1]].commands) = 2
    /\ Contains(Fragments[call.parts[2]].content, "EOF")
    /\ Len(call.commands) = 3

(* SuperGeniusAgent: tables *)

\* PRE_EXECUTION_HOOKS, in the order of the dictionary. A backquote of the source is
\* written as an apostrophe and the letter G stands for the one non-ASCII letter;
\* time_budget is in tenths (15 is 1.5).
PRE_EXECUTION_HOOKS ==
    <<[name |-> "db-wal-recovery",
       keywords |-> <<"wal",
                    "sqlite",
                    "recovery",
                    "truncate",
                    "uncommitted">>,
       category |-> "database",
       pre_commands |->
          <<"cp /app/main.db-wal /tmp/wal_backup.wal 2>/dev/null || true",
            "cp /app/main.db-wal /app/wal_original.backup 2>/dev/null || true",
            "ls -la /app/main.db* 2>/dev/null || true">>,
       post_context |->
          "## CRITICAL: WAL File Protection\n\n**PRE-EXECUTION HOOK EXECUTED**: The WAL file has been backed up.\n\nBACKUP LOCATIONS:\n- '/tmp/wal_backup.wal' (PRIMARY - use this!)\n- '/app/wal_original.backup' (secondary)\n\n**WHY THIS MATTERS**: Running 'sqlite3 /app/main.db' will auto-checkpoint \nthe WAL file, DESTROYING the uncommitted records you need to recover.\n\n**YOUR TASK**: Parse '/tmp/wal_backup.wal' directly with Python.\nWAL format: 32-byte header, then frames (24-byte header + page data).\nLook for INSERT records in the raw page data.\n\n**DO NOT RUN sqlite3 on /app/main.db until you've extracted the records!**",
       extended_thinking |-> TRUE,
       time_budget |-> 15],
      [name |-> "gpt2-codegolf",
       keywords |-> <<"gpt-2",
                    "gpt2",
                    "124m",
                    "codegolf",
                    "inference",
                    "5000 bytes">>,
       category |-> "ml",
       pre_commands |->
          <<"pip install numpy 2>/dev/null || pip3 install numpy",
            "ls -la /app/*.bin /app/*.pt /app/*.model 2>/dev/null || true",
            "ls -la /app/encoder.json /app/vocab.bpe 2>/dev/null || true",
            "python3 -c \"import struct; print(struct.calcsize('f'))\" 2>/dev/null || true",
            "head -c 100 /app/gpt2_124M.bin 2>/dev/null | xxd | head -5">>,
       post_context |->
          "## GPT-2 124M Checkpoint Format (CRITICAL REFERENCE)\n\nThe checkpoint contains raw float32 weights concatenated in this EXACT order:\n\n**1. Token embeddings**: wte [50257, 768] = 38,597,376 floats\n**2. Position embeddings**: wpe [1024, 768] = 786,432 floats\n**3. 12 Transformer blocks**, each containing IN ORDER:\n   - ln1.weight [768], ln1.bias [768]\n   - c_attn.weight [768, 2304], c_attn.bias [2304]  (Q,K,V combined)\n   - c_proj.weight [768, 768], c_proj.bias [768]\n   - ln2.weight [768], ln2.bias [768]\n   - c_fc.weight [768, 3072], c_fc.bias [3072]\n   - c_proj.weight [3072, 768], c_proj.bias [768]\n**4. Final layer norm**: ln_f.weight [768], ln_f.bias [768]\n\n## Reading Weights in Python:\n'''python\nimport numpy as np\nwith open('/app/gpt2_124M.bin', 'rb') as f:\n    data = np.frombuffer(f.read(), dtype=np.float32)\nwte = data[:50257*768].reshape(50257, 768)  # Token embeddings\nwpe = data[50257*768:][:1024*768].reshape(1024, 768)  # Position embeddings\n# Then blocks at offset 50257*768 + 1024*768\n'''\n\n## BPE Tokenizer:\n- Space is encoded as \"G\" (bytes 0xC4 0xA0 = chr(288-256+0x100)=G)\n- encoder.json: Maps string tokens to IDs\n- vocab.bpe: Contains merge rules (first line is version)\n\n## CODEGOLF STRATEGY (<5000 bytes):\n1. Use Python struct.unpack for raw reads (smaller than numpy)\n2. Use argmax instead of softmax (skip temperature)\n3. Combine all operations inline\n4. Minimal imports: only struct, sys\n5. Short variable names (w for weights, t for tokens)\n6. No comments, no whitespace\n7. Use gzip compression if output is binary\n\nExample minimal inference:\n'''python\nimport struct,sys\nwith open('/app/gpt2_124M.bin','rb')as f:d=f.read()\n# Read wte directly with struct\n'''",
       extended_thinking |-> TRUE,
       time_budget |-> 20],
      [name |-> "filter-js-from-html",
       keywords |-> <<"xss",
                    "filter",
                    "javascript",
                    "html",
                    "sanitize",
                    "injection">>,
       category |-> "security",
       pre_commands |->
          <<"cat > /app/filter.py << 'FILTEREOF'\nimport sys\nfrom bs4 import BeautifulSoup\n\ndef remove_js(html):\n    soup = BeautifulSoup(html, \"html.parser\")\n    for tag_name in ['script', 'frame', 'iframe', 'object', 'embed']:\n        for tag in soup(tag_name):\n            tag.decompose()\n    for tag in soup.find_all(True):\n        for attr in list(tag.attrs):\n            if attr.startswith(\"on\"):\n                del tag.attrs[attr]\n    result = str(soup)\n    result = result.replace(\"javascript:\", \"\")\n    result = result.replace(\"<script\", \"&lt;script\")\n    return result\n\nif __name__ == \"__main__\":\n    if len(sys.argv) != 2:\n        print(\"Usage: python filter.py <html_file>\")\n        sys.exit(1)\n    with open(sys.argv[1], 'r') as f:\n        html = f.read()\n    filtered = remove_js(html)\n    with open(sys.argv[1], 'w') as f:\n        f.write(filtered)\nFILTEREOF",
            "chmod +x /app/filter.py",
            "python3 -c \"from bs4 import BeautifulSoup; print('bs4 OK')\"">>,
       post_context |->
          "## XSS Filter - PRE-CREATED!\n\n**NOTE**: A working filter.py has already been created in /app/filter.py by the pre-execution hook.\n\nJust verify it works by testing:\n'''bash\n# Test that filter.py exists\nls -la /app/filter.py\n\n# Test on a sample\necho '<script>alert(1)</script><p>Hello</p>' > /tmp/test.html\npython3 /app/filter.py /tmp/test.html\ncat /tmp/test.html\n'''\n\nThe filter should have removed the script tag but kept the paragraph.\n\n**The task is essentially complete** - just verify the solution works.",
       extended_thinking |-> FALSE,
       time_budget |-> 10],
      [name |-> "regex-chess",
       keywords |-> <<"regex",
                    "chess",
                    "re.json",
                    "legal move",
                    "fen">>,
       category |-> "algorithm",
       pre_commands |->
          <<"pip install python-chess 2>/dev/null || pip3 install python-chess",
            "ls -la /app/*.json /app/*.py 2>/dev/null || true",
            "cat /app/check.py 2>/dev/null | head -30">>,
       post_context |->
          "## Regex Chess Move Generation\n\n**DEPENDENCY INSTALLED**: python-chess\n\n### TASK UNDERSTANDING:\nCreate /app/re.json with regex patterns that can determine if a chess move is legal.\nThe test will apply your regex patterns to validate move strings.\n\n### MOVE FORMAT:\nChess moves typically in algebraic notation:\n- Pawn moves: e4, e5, d4, d5 (no piece letter)\n- Piece moves: Nf3, Bc4, Qd1, Kc1\n- Captures: exd5, Nxf7, Bxc6\n- Castling: O-O (kingside), O-O-O (queenside)\n- Promotion: e8=Q, a1=N\n\n### STRATEGY:\n1. Parse all test positions from the test file\n2. Use python-chess to generate legal moves for each position\n3. Build regex patterns that match ONLY legal moves\n\n'''python\nimport chess\nimport json\n\n# Generate all legal moves for a position\nboard = chess.Board(\"rnbqkbnr/pppppppp/8/8/8/8/PPPPPPPP/RNBQKBNR w KQkq - 0 1\")\nlegal_moves = [board.san(m) for m in board.legal_moves]\n# ['a3', 'a4', 'b3', 'b4', 'c3', 'c4', 'd3', 'd4', 'e3', 'e4', 'f3', 'f4', \n#  'g3', 'g4', 'h3', 'h4', 'Na3', 'Nc3', 'Nf3', 'Nh3']\n\n# UCI format\nuci_moves = [m.uci() for m in board.legal_moves]\n# ['a2a3', 'a2a4', 'b2b3', ...]\n'''\n\n### OUTPUT FORMAT (/app/re.json):\n'''json\n[\n  [\"pattern1\", \"replacement1\"],\n  [\"pattern2\", \"replacement2\"]\n]\n'''\n\nThe patterns should match legal moves and reject illegal ones.\n\n**Run check.py to verify your solution!**",
       extended_thinking |-> TRUE,
       time_budget |-> 20],
      [name |-> "chess-best-move",
       keywords |-> <<"chess",
                    "best move",
                    "image",
                    "board",
                    "png">>,
       category |-> "vision",
       pre_commands |->
          <<"pip install python-chess pillow 2>/dev/null || pip3 install python-chess pillow",
            "apt-get install -y stockfish 2>/dev/null || true">>,
       post_context |->
          "## Chess Best Move from Image\n\n**DEPENDENCIES INSTALLED**: python-chess, pillow, stockfish (if available)\n\nAPPROACH:\n1. Extract board state from image (OCR or piece detection)\n2. Convert to FEN string\n3. Use stockfish or python-chess for analysis\n\nSTOCKFISH USAGE:\n'''python\nimport chess\nimport chess.engine\n\nboard = chess.Board(\"FEN_STRING_HERE\")\nengine = chess.engine.SimpleEngine.popen_uci(\"/usr/games/stockfish\")\nresult = engine.play(board, chess.engine.Limit(time=2.0))\nprint(result.move)  # Best move\nengine.quit()\n'''\n\nIf vision is limited, look for any text annotations in the image.",
       extended_thinking |-> TRUE,
       time_budget |-> 15],
      [name |-> "password-recovery",
       keywords |-> <<"password",
                    "recovery",
                    "deleted",
                    "forensic",
                    "launchcode">>,
       category |-> "forensics",
       pre_commands |->
          <<"strings /dev/sda 2>/dev/null | grep -E \"PASSWORD=.{15,25}\" > /tmp/disk_passwords.txt || true",
            "grep -r \"PASSWORD=\" /app/ 2>/dev/null > /tmp/app_passwords.txt || true",
            "find /app -name \"*.txt\" -exec cat {} \\; 2>/dev/null | grep PASSWORD > /tmp/txt_passwords.txt || true",
            "ls -la /app/.* 2>/dev/null || true">>,
       post_context |->
          "## Password Recovery - Data Already Scanned\n\n**CHECK THESE FILES FIRST**:\n- '/tmp/disk_passwords.txt' - Strings from disk\n- '/tmp/app_passwords.txt' - Grep from /app\n- '/tmp/txt_passwords.txt' - From .txt files\n\nLook for pattern: PASSWORD=8XD...W54 (23 characters total)\nWrite matches to /app/recovered_passwords.txt",
       extended_thinking |-> FALSE,
       time_budget |-> 10],
      [name |-> "openssl-selfsigned-cert",
       keywords |-> <<"openssl",
                    "certificate",
                    "selfsigned",
                    "self-signed",
                    "tls",
                    "ssl">>,
       category |-> "sysadmin",
       pre_commands |->
          <<"which openssl || apt-get install -y openssl",
            "pip install cryptography 2>/dev/null || pip3 install cryptography",
            "mkdir -p /app/ssl">>,
       post_context |->
          "## OpenSSL Self-Signed Certificate - COMPLETE RECIPE\n\n**READ THE TASK CAREFULLY** - It requires:\n1. Directory /app/ssl/\n2. server.key (600 permissions)\n3. server.crt (365 days, O=DevOps Team, CN=dev-internal.company.local)\n4. server.pem (combined key+cert)\n5. verification.txt (subject, dates, fingerprint)\n6. check_cert.py (Python script using cryptography library)\n\n**EXACT COMMANDS**:\n'''bash\n# 1. Create directory\nmkdir -p /app/ssl\n\n# 2. Generate key with proper permissions\nopenssl genrsa -out /app/ssl/server.key 2048\nchmod 600 /app/ssl/server.key\n\n# 3. Generate certificate\nopenssl req -new -x509 -days 365 -key /app/ssl/server.key -out /app/ssl/server.crt \\\n  -subj \"/O=DevOps Team/CN=dev-internal.company.local\"\n\n# 4. Combined PEM\ncat /app/ssl/server.key /app/ssl/server.crt > /app/ssl/server.pem\n\n# 5. Verification file\nopenssl x509 -in /app/ssl/server.crt -noout -subject -dates -fingerprint -sha256 > /app/ssl/verification.txt\n\n# 6. Python check script - USE SUBPROCESS + OPENSSL (no external libs!)\ncat > /app/check_cert.py << 'EOF'\nimport subprocess, datetime\ncert = \"/app/ssl/server.crt\"\n# Get CN\ncn = subprocess.run([\"openssl\", \"x509\", \"-in\", cert, \"-noout\", \"-subject\"], \n                    capture_output=True, text=True).stdout\ncn = cn.split(\"CN = \")[1].strip() if \"CN = \" in cn else \"Unknown\"\n# Get expiry\nexp = subprocess.run([\"openssl\", \"x509\", \"-in\", cert, \"-noout\", \"-enddate\"],\n                     capture_output=True, text=True).stdout\nif \"notAfter=\" in exp:\n    d = exp.split(\"notAfter=\")[1].strip()\n    try:\n        d = datetime.datetime.strptime(d, \"%b %d %H:%M:%S %Y %Z\").strftime(\"%Y-%m-%d\")\n    except: pass\n    exp = d\nprint(f\"Certificate Common Name: {cn}\")\nprint(f\"Expiration Date: {exp}\")\nprint(\"Certificate verification successful\")\nEOF\n'''",
       extended_thinking |-> FALSE,
       time_budget |-> 5],
      [name |-> "pypi-server",
       keywords |-> <<"pypi",
                    "server",
                    "pip",
                    "package",
                    "repository">>,
       category |-> "sysadmin",
       pre_commands |->
          <<"pip install pypiserver passlib 2>/dev/null || pip3 install pypiserver passlib",
            "mkdir -p /app/packages">>,
       post_context |->
          "## PyPI Server Setup - RECIPE\n\n**Dependencies installed**: pypiserver, passlib\n\n**START SERVER**:\n'''bash\n# Basic server (no auth)\npypi-server run -p 8080 /app/packages &\n\n# Or with authentication\nhtpasswd -c /app/.htpasswd admin  # Create password file\npypi-server run -p 8080 -P /app/.htpasswd /app/packages &\n'''\n\n**TEST**:\n'''bash\npip install --index-url http://localhost:8080/simple/ package_name\n'''",
       extended_thinking |-> FALSE,
       time_budget |-> 10],
      [name |-> "compile-compcert",
       keywords |-> <<"compcert",
                    "compiler",
                    "verified",
                    "coq",
                    "ocaml">>,
       category |-> "build",
       pre_commands |->
          <<"apt-get update && apt-get install -y ocaml ocaml-native-compilers menhir coq libcoq-ocaml-dev",
            "cd /tmp/CompCert && ./configure x86_64-linux 2>/dev/null || true">>,
       post_context |->
          "## CompCert Build - Dependencies Installed\n\n**RECIPE** (dependencies already installed):\n'''bash\ncd /tmp/CompCert\n./configure x86_64-linux\nmake -j$(nproc)\n# Verify\n./ccomp --version\n'''\n\nIf configure fails, check: 'ocaml --version' and 'coqc --version'",
       extended_thinking |-> FALSE,
       time_budget |-> 20],
      [name |-> "git-leak-recovery",
       keywords |-> <<"git",
                    "leak",
                    "secret",
                    "sensitive",
                    "recovery",
                    "history">>,
       category |-> "git",
       pre_commands |->
          <<"cd /app && git reflog > /tmp/git_reflog.txt 2>/dev/null || true",
            "cd /app && git log --all --oneline > /tmp/git_all_commits.txt 2>/dev/null || true",
            "cd /app && git stash list > /tmp/git_stashes.txt 2>/dev/null || true">>,
       post_context |->
          "## Git Recovery - History Captured\n\n**CHECK THESE FILES**:\n- '/tmp/git_reflog.txt' - Reference log (find lost commits)\n- '/tmp/git_all_commits.txt' - All commits including orphaned\n- '/tmp/git_stashes.txt' - Stashed changes\n\n**RECOVERY COMMANDS**:\n'''bash\n# Find lost commits\ngit fsck --lost-found\n\n# Recover from reflog\ngit checkout HEAD@{n}\n\n# Search all objects for secrets\ngit rev-list --all | xargs git grep \"SECRET_PATTERN\"\n'''",
       extended_thinking |-> FALSE,
       time_budget |-> 10]>>

\* CATEGORY_GUIDELINES
CATEGORY_GUIDELINES ==
    [database |->
        "## Database Task Guidelines\n- ALWAYS backup data files before any operation\n- SQLite auto-checkpoints on connect - beware!\n- Use Python struct for binary parsing\n- Verify recovered data format matches expected schema",
     security |->
        "## Security Task Guidelines\n- Ground exact command sequences before execution\n- Some operations are IRREVERSIBLE\n- Use established libraries (bleach, DOMPurify)\n- Test all known bypass vectors\n- OWASP Top 10 awareness",
     ml |->
        "## ML Task Guidelines\n- Test with small epochs/batch FIRST\n- Training can exceed timeout - verify shapes early\n- Check GPU: nvidia-smi\n- Cache datasets to avoid re-downloads\n- Monitor memory usage",
     algorithm |->
        "## Algorithm Task Guidelines\n- Start with working reference implementation\n- Edge cases: empty input, single element, max size\n- Verify with provided test cases\n- Consider time complexity for large inputs",
     vision |->
        "## Vision Task Guidelines\n- Check available vision libraries (pillow, opencv)\n- Consider OCR for text extraction",
     forensics |->
        "## Forensics Task Guidelines\n- SCAN FIRST before any writes that could corrupt evidence\n- Use strings, grep on raw devices\n- Check /tmp for pre-scanned data from hooks\n- Deleted files may still be in disk blocks",
     build |->
        "## Build Task Guidelines\n- Dependencies may already be installed by pre-hooks\n- Use make -j$(nproc) for parallel builds\n- Check configure output for missing dependencies\n- Common issues: version mismatches, missing headers",
     git |->
        "## Git Recovery Guidelines  \n- Check /tmp for pre-captured reflog and history\n- Use git fsck --lost-found for orphaned objects\n- Reflog keeps history even after reset\n- Search all branches: git log --all",
     sysadmin |->
        "## System Administration Guidelines\n- Use modern commands: ip over ifconfig, ss over netstat\n- Check service status before modifications\n- Backup configs: cp file file.bak\n- Use make -j$(nproc) for parallel builds"]

(* SuperGeniusAgent._classify_task *)

\* sum(1 for kw in keywords if kw in lower)
RECURSIVE keyword_matches(_, _)
keyword_matches(lower, keywords) ==
    IF keywords = <<>> THEN 0
    ELSE (IF Contains(lower, Head(keywords)) THEN 1 ELSE 0)
            + keyword_matches(lower, Tail(keywords))

\* the number of keyword matches that selects a task
HookThreshold == 2

TaskClassification(name, category, pre_hooks, context, thinking, ratio) ==
    [name |-> name, category |-> category, pre_hooks |-> pre_hooks,
     post_hook_context |-> context, use_extended_thinking |-> thinking,
     time_budget_ratio |-> ratio]

\* the default classification; time_budget_ratio is in tenths
general_classification == TaskClassification("general", "general", <<>>, "", FALSE, 10)

\* the first task of the table with enough keywords in the lowered instruction
SuperGenius_classify_task(instr) ==
    LET lower == Lower(instr)
        hits == {k \in 1..Len(PRE_EXECUTION_HOOKS) :
                    keyword_matches(lower, PRE_EXECUTION_HOOKS[k].keywords) >= HookThreshold}
    IN  IF hits = {} THEN general_classification
        ELSE LET config == PRE_EXECUTION_HOOKS[CHOOSE k \in hits : \A j \in hits : k <= j]
             IN  TaskClassification(config.name, config.category, config.pre_commands,
                                    config.post_context, config.extended_thinking,
                                    config.time_budget)

(* SuperGeniusAgent._build_hierarchical_prompt *)

AgentCapabilities ==
    "## Agent Capabilities\n\nYou are an expert terminal agent with access to:\n- Shell command execution (bash)\n- File operations (read, write, create, modify)\n- Package management (apt, pip, npm, cargo)\n- Service control (systemctl, docker)\n\nYou solve tasks by executing commands and analyzing output."

PlanningRequired ==
    "## Planning Required\n\nBefore implementing, create a brief TODO list:\n1. What needs to be done\n2. What could go wrong\n3. How to verify success\n\nUpdate the plan as you work."

\* the reminder of the task, for the three tasks that have one
task_reminder(name) ==
    IF name = "db-wal-recovery"
    THEN <<"\n**DB TASK**: Use /tmp/wal_backup.wal (already backed up). DO NOT run sqlite3 on original!">>
    ELSE IF name = "filter-js-from-html"
    THEN <<"\n**XSS TASK**: Test ALL bypass vectors. Use bleach library.">>
    ELSE IF name = "gpt2-codegolf"
    THEN <<"\n**CODEGOLF**: Stay under 5000 bytes. Skip softmax, use argmax.">>
    ELSE <<>>

\* TIER 3: the notifications at the end of the prompt
SuperGenius_notifications(classification, att, error, maxTurns) ==
    <<"## CRITICAL REMINDERS (READ CAREFULLY)">>
    \o (IF att > 1
        THEN <<"\n**ATTEMPT " \o ToString(att) \o "/" \o ToString(maxTurns)
                    \o "**: Previous attempt failed.">>
             \o (IF error # ""
                 THEN <<"Error: " \o SubSeq(error, 1, Min(Len(error), ErrorExcerptLimit))>>
                 ELSE <<>>)
             \o <<"**Try a DIFFERENT approach. Do not repeat failed commands.**">>
        ELSE <<>>)
    \o task_reminder(classification.name)
    \o <<"\n**Before completing:**",
         "- Verify solution works (run tests if available)",
         "- Check edge cases",
         "- Ensure output format matches requirements exactly">>

SuperGenius_build_hierarchical_prompt(instr, att, error, env, cls, planning, hooked, maxTurns) ==
    Join("\n\n",
         <<AgentCapabilities>>
         \o (IF env # ""
             THEN <<"## Environment (pre-discovered)\n" \o Fence \o "\n" \o env \o "\n" \o Fence>>
             ELSE <<>>)
         \o (IF cls.category \in DOMAIN CATEGORY_GUIDELINES
             THEN <<CATEGORY_GUIDELINES[cls.category]>>
             ELSE <<>>)
         \o (IF planning THEN <<PlanningRequired>> ELSE <<>>)
         \o (IF hooked # "" THEN <<hooked>> ELSE <<>>)
         \o <<"## Task\n\n" \o instr>>
         \o <<Join("\n", SuperGenius_notifications(cls, att, error, maxTurns))>>)

(* SuperGeniusAgent.run: the engine and the container *)

\* the largest max_turns a SuperGeniusAgent is constructed with
MaxSGTurns == 1

\* range(1, self._max_turns * 10 + 1)
TurnFactor == 10

\* environment.exec(cmd, timeout_sec=30) of a pre-execution hook
HookTimeoutSec == 30

\* environment.exec(cmd, timeout_sec=5) of an environment check
EnvCheckTimeoutSec == 5

\* environment.exec(cmd, timeout_sec=60) of an extracted command
CommandTimeoutSec == 60

\* chat.chat(current_prompt, max_tokens=16384)
MaxTokens == 16384

\* response_text[:2000]
ResponseExcerptLimit == 2000

SGInstructions ==
    {"List the files",
     "Recover the SQLite database from the WAL",
     "Recover the leaked secret from git history"}

\* what the engine answers; absent when response.content is None
Says(content) == [raises |-> FALSE, absent |-> FALSE, content |-> content, message |-> ""]

SaysNothing == [raises |-> FALSE, absent |-> TRUE, content |-> "", message |-> ""]

EngineRaises ==
    [raises |-> TRUE, absent |-> TRUE, content |-> "", message |-> "rate limit exceeded"]

OneCleanCommand == Says("I will look around first.\n<bash>ls -la</bash>\n")

ThreeCommands == Says("<bash>\ncat missing.txt\nsleep 120\nmake\n</bash>\n")

NoCommand == Says("Let me think about this.")

Completion == Says("The report has been created. Task complete.")

\* the engine's answers, turn after turn; a script starts again when it runs out
EngineScripts ==
    {<<OneCleanCommand>>,
     <<OneCleanCommand, Completion>>,
     <<ThreeCommands, OneCleanCommand>>,
     <<NoCommand>>,
     <<NoCommand, Completion>>,
     <<EngineRaises>>,
     <<OneCleanCommand, EngineRaises>>,
     <<ThreeCommands, NoCommand, EngineRaises>>,
     <<SaysNothing, ThreeCommands, Completion>>,
     <<Completion>>}

\* the answer of the engine to the k-th call of chat.chat
Answer(script, k) == script[((k - 1) % Len(script)) + 1]

\* healthy: every command returns; flaky: sleep 120 outlives the time limit
\* of environment.exec; down: every call of environment.exec raises
Profiles == {"healthy", "flaky", "down"}

Returned(stdout, stderr, return_code) ==
    [raised |-> FALSE, message |-> "", stdout |-> stdout, stderr |-> stderr,
     return_code |-> return_code]

Raised(message) ==
    [raised |-> TRUE, message |-> message, stdout |-> "", stderr |-> "", return_code |-> 0]

\* what environment.exec(cmd) does in a container of the given profile
ExecOutcome(profile, cmd) ==
    IF profile = "down" THEN Raised("environment is not running")
    ELSE IF profile = "flaky" /\ cmd = "sleep 120"
    THEN Raised("Command timed out after 60 seconds")
    ELSE IF cmd = "pwd" THEN Returned("/app\n", "", 0)
    ELSE IF cmd = "ls -la 2>/dev/null | head -20" THEN Returned("total 0\n", "", 0)
    ELSE IF cmd = "ls -la" THEN Returned("total 0\n", "", 0)
    ELSE IF cmd = "cat /etc/os-release 2>/dev/null | head -5"
    THEN Returned("NAME=Ubuntu\n", "", 0)
    ELSE IF cmd = "which python python3 pip hashcat john sqlite3 2>/dev/null"
    THEN Returned("  \n", "", 1)
    ELSE IF cmd = "cat missing.txt"
    THEN Returned("", "cat: missing.txt: No such file or directory", 1)
    ELSE IF cmd = "make" THEN Returned("cc -o app app.c\n", "warning: unused variable", 0)
    ELSE Returned("", "", 0)

(* SuperGeniusAgent.run *)

InitSG ==
    /\ pc = "sg_start"
    /\ instruction \in SGInstructions
    /\ max_turns \in 0..MaxSGTurns
    /\ enable_pre_hooks \in BOOLEAN
    /\ enable_planning \in BOOLEAN
    /\ task_classification = NoClassification
    /\ pre_hook_context = ""
    /\ pending = <<>>
    /\ info_parts = <<>>
    /\ turn = 0
    /\ current_prompt = ""
    /\ response_text = ""
    /\ commands = <<>>
    /\ all_output = <<>>
    /\ context_metadata = [x \in {} |-> 0]
    /\ tasks_run = 0
    /\ chat \in {[script |-> s, calls |-> <<>>] : s \in EngineScripts}
    /\ environment \in {[profile |-> p, calls |-> <<>>] : p \in Profiles}
    /\ timeout_sec = DefaultTimeoutSec
    /\ use_memory = TRUE
    /\ context_decision = None
    /\ task_category = "general"
    /\ memory_context = ""
    /\ env_info = ""
    /\ prev_error = ""
    /\ current_context_level = "unset"
    /\ attempt = 0
    /\ prompt = ""
    /\ turns = <<>>
    /\ result = NoResult
    /\ metadata = [context_decision |-> LoggedDecision(None), all_attempts_failed |-> FALSE]
    /\ call = NoCall

\* the variables of UAMAgent and of the pure calls, which a SuperGeniusAgent leaves alone
otherVars == <<timeout_sec, use_memory, context_decision, task_category, memory_context,
               prev_error, current_context_level, attempt, prompt, turns, result,
               metadata, call, tasks_run>>

\* environment.exec(cmd, timeout_sec=...) is called
Called(cmd, limit) ==
    [environment EXCEPT !.calls = Append(@, [cmd |-> cmd, timeout_sec |-> limit])]

\* the checks of _gather_env_info
EnvChecks ==
    <<[cmd |-> "pwd", label |-> "Working directory"],
      [cmd |-> "ls -la 2>/dev/null | head -20", label |-> "Files"],
      [cmd |-> "which python python3 pip hashcat john sqlite3 2>/dev/null", label |-> "Tools"],
      [cmd |-> "cat /etc/os-release 2>/dev/null | head -5", label |-> "OS"]>>

EnvCheckCommands == [k \in 1..Len(EnvChecks) |-> EnvChecks[k].cmd]

\* the label of the check that is next in line
PendingLabel == EnvChecks[Len(EnvChecks) - Len(pending) + 1].label

\* the code after the for loop
RanOutOfTurns(meta) ==
    ("success" :> FALSE) @@ ("turns_used" :> max_turns * TurnFactor) @@ meta

\* a loop that makes one pass more than its range
NextPass_one_more(last, meta) ==
    IF last <= max_turns * TurnFactor
    THEN /\ turn' = last + 1
         /\ pc' = "chat"
         /\ context_metadata' = meta
    ELSE /\ turn' = last
         /\ pc' = "done"
         /\ context_metadata' = RanOutOfTurns(meta)

\* for turn in range(1, self._max_turns * 10 + 1), after the pass for turn
\* last (0 before the first pass): the next pass, or the code after the loop
NextPass(last, meta) ==
    IF last < max_turns * TurnFactor
    THEN /\ turn' = last + 1
         /\ pc' = "chat"
         /\ context_metadata' = meta
    ELSE /\ turn' = last
         /\ pc' = "done"
         /\ context_metadata' = RanOutOfTurns(meta)

\* run from the return of _run_pre_hooks to the first check of _gather_env_info
AfterPreHooks ==
    /\ pc' = "env_info"
    /\ context_metadata' =
          ("pre_hooks_run" :> (Len(task_classification.pre_hooks) > 0)) @@ context_metadata
    /\ pending' = EnvCheckCommands
    /\ info_parts' = <<>>

\* Step 1 and the start of step 2
SG_Classify ==
    /\ pc = "sg_start"
    /\ task_classification' = SuperGenius_classify_task(instruction)
    /\ IF enable_pre_hooks /\ task_classification'.pre_hooks # <<>>
       THEN /\ pc' = "pre_hooks"
            /\ pending' = task_classification'.pre_hooks
            /\ context_metadata' =
                  [task_classification |->
                      [name |-> task_classification'.name,
                       category |-> task_classification'.category,
                       extended_thinking |-> task_classification'.use_extended_thinking,
                       time_budget_ratio |-> task_classification'.time_budget_ratio]]
            /\ UNCHANGED info_parts
       ELSE /\ pc' = "env_info"
            /\ pending' = EnvCheckCommands
            /\ info_parts' = <<>>
            /\ context_metadata' =
                  [task_classification |->
                      [name |-> task_classification'.name,
                       category |-> task_classification'.category,
                       extended_thinking |-> task_classification'.use_extended_thinking,
                       time_budget_ratio |-> task_classification'.time_budget_ratio],
                   pre_hooks_run |-> Len(task_classification'.pre_hooks) > 0]
    /\ UNCHANGED <<instruction, max_turns, env_info, enable_pre_hooks, enable_planning,
                   pre_hook_context, turn, current_prompt, response_text, commands,
                   all_output, chat, environment>>
    /\ UNCHANGED otherVars

\* _run_pre_hooks: one hook is dispatched; what it returns or raises is dropped
PreHookStep ==
    /\ pc = "pre_hooks"
    /\ environment' = Called(Head(pending), HookTimeoutSec)
    /\ IF Tail(pending) = <<>>
       THEN /\ pre_hook_context' = task_classification.post_hook_context
            /\ AfterPreHooks
       ELSE /\ pending' = Tail(pending)
            /\ UNCHANGED <<pc, pre_hook_context, context_metadata, info_parts>>
    /\ UNCHANGED <<instruction, max_turns, env_info, enable_pre_hooks, enable_planning,
                   task_classification, turn, current_prompt, response_text, commands,
                   all_output, chat>>
    /\ UNCHANGED otherVars

SG_PreHook ==
    /\ pc = "pre_hooks"
    /\ ~ExecOutcome(environment.profile, Head(pending)).raised
    /\ PreHookStep

SG_PreHookRaises ==
    /\ pc = "pre_hooks"
    /\ ExecOutcome(environment.profile, Head(pending)).raised
    /\ PreHookStep

\* _gather_env_info after a check, with the parts gathered so far; after the
\* last check, steps 3 and 4 of run and the entry into the loop
EnvCheckStep(parts) ==
    /\ environment' = Called(Head(pending), EnvCheckTimeoutSec)
    /\ info_parts' = parts
    /\ pending' = Tail(pending)
    /\ IF Tail(pending) = <<>>
       THEN /\ env_info' = Join("\n\n", parts)
            /\ current_prompt' =
                  SuperGenius_build_hierarchical_prompt(instruction, 1, "", env_info',
                      task_classification, enable_planning, pre_hook_context, max_turns)
            /\ NextPass(0, ("turns" :> <<>>) @@ context_metadata)
       ELSE UNCHANGED <<pc, env_info, current_prompt, turn, context_metadata>>
    /\ UNCHANGED <<instruction, max_turns, enable_pre_hooks, enable_planning,
                   task_classification, pre_hook_context, response_text, commands,
                   all_output, chat>>
    /\ UNCHANGED otherVars

SG_EnvCheck ==
    /\ pc = "env_info"
    /\ LET outcome == ExecOutcome(environment.profile, Head(pending))
       IN  /\ ~outcome.raised
           /\ EnvCheckStep(IF Strip(outcome.stdout) # ""
                           THEN Append(info_parts,
                                       "# " \o PendingLabel \o "\n" \o Strip(outcome.stdout))
                           ELSE info_parts)

SG_EnvCheckRaises ==
    /\ pc = "env_info"
    /\ ExecOutcome(environment.profile, Head(pending)).raised
    /\ EnvCheckStep(info_parts)

CompletionPhrases ==
    <<"task complete", "done", "finished", "created", "saved", "recovered">>

Nudge == "Please provide a bash command to execute, or indicate if the task is complete."

\* response_text[:2000]
ResponseExcerpt(text) == SubSeq(text, 1, Min(Len(text), ResponseExcerptLimit))

\* chat.chat(current_prompt, max_tokens=16384) is called
Asked ==
    [chat EXCEPT !.calls = Append(@, [prompt |-> current_prompt, max_tokens |-> MaxTokens])]

\* a response without commands whose turn is passed over without a nudge
NoCommands_silent(text, meta) ==
    IF ContainsAny(Lower(text), CompletionPhrases)
    THEN /\ context_metadata' = ("success" :> TRUE) @@ ("turns_used" :> turn) @@ meta
         /\ pc' = "done"
         /\ UNCHANGED <<turn, current_prompt, pending, all_output>>
    ELSE /\ NextPass(turn, meta)
         /\ UNCHANGED <<current_prompt, pending, all_output>>

\* if not commands: the run returns with success when the response holds a
\* completion phrase, and the next turn gets the nudge otherwise
NoCommands(text, meta) ==
    IF ContainsAny(Lower(text), CompletionPhrases)
    THEN /\ context_metadata' = ("success" :> TRUE) @@ ("turns_used" :> turn) @@ meta
         /\ pc' = "done"
         /\ UNCHANGED <<turn, current_prompt, pending, all_output>>
    ELSE /\ current_prompt' = Nudge
         /\ NextPass(turn, meta)
         /\ UNCHANGED <<pending, all_output>>

\* the engine answers: the turn is recorded (without elapsed_sec, which is read off
\* the clock) and the commands are extracted
SG_Chat ==
    /\ pc = "chat"
    /\ LET answer == Answer(chat.script, Len(chat.calls) + 1)
           text == IF answer.absent THEN "" ELSE answer.content
           extracted == SuperGenius_extract_bash_commands(text)
           meta == [context_metadata EXCEPT !["turns"] =
                       Append(@, [turn |-> turn, response |-> ResponseExcerpt(text)])]
       IN  /\ ~answer.raises
           /\ chat' = Asked
           /\ response_text' = text
           /\ commands' = extracted
           /\ IF extracted = <<>>
              THEN NoCommands(text, meta)
              ELSE /\ all_output' = <<>>
                   /\ pending' = extracted
                   /\ pc' = "exec"
                   /\ context_metadata' = meta
                   /\ UNCHANGED <<turn, current_prompt>>
    /\ UNCHANGED <<instruction, max_turns, env_info, enable_pre_hooks, enable_planning,
                   task_classification, pre_hook_context, info_parts, environment>>
    /\ UNCHANGED otherVars

\* the engine raises and the raise is passed on to the next turn
SG_ChatRaises_retried ==
    /\ pc = "chat"
    /\ LET answer == Answer(chat.script, Len(chat.calls) + 1)
       IN  /\ answer.raises
           /\ chat' = Asked
           /\ NextPass(turn, ("error" :> answer.message) @@ context_metadata)
    /\ UNCHANGED <<instruction, max_turns, env_info, enable_pre_hooks, enable_planning,
                   task_classification, pre_hook_context, pending, info_parts,
                   current_prompt, response_text, commands, all_output, environment>>
    /\ UNCHANGED otherVars

\* the engine raises: the error is recorded and the loop is left
SG_ChatRaises ==
    /\ pc = "chat"
    /\ LET answer == Answer(chat.script, Len(chat.calls) + 1)
       IN  /\ answer.raises
           /\ chat' = Asked
           /\ context_metadata' =
                 RanOutOfTurns(("error" :> answer.message) @@ context_metadata)
           /\ pc' = "done"
    /\ UNCHANGED <<instruction, max_turns, env_info, enable_pre_hooks, enable_planning,
                   task_classification, pre_hook_context, pending, info_parts, turn,
                   current_prompt, response_text, commands, all_output, environment>>
    /\ UNCHANGED otherVars

\* what the loop over the commands keeps of one command that returned
CommandOutput(cmd, outcome) ==
    "$ " \o cmd \o "\n" \o outcome.stdout
    \o (IF outcome.stderr # "" THEN "\nSTDERR: " \o outcome.stderr ELSE "")
    \o (IF outcome.return_code # 0
        THEN "\n[exit code: " \o ToString(outcome.return_code) \o "]" ELSE "")

\* what the loop over the commands keeps of one command that raised
CommandError(cmd, outcome) == "$ " \o cmd \o "\nERROR: " \o outcome.message

\* a loop over the commands that dispatches the last pending command first
ExecStep_last_first(output, left) ==
    /\ environment' = Called(pending[Len(pending)], CommandTimeoutSec)
    /\ all_output' = Append(all_output, output)
    /\ pending' = left
    /\ IF left = <<>>
       THEN /\ current_prompt' = "Command output:\n" \o Join("\n\n", all_output')
            /\ NextPass(turn, context_metadata)
       ELSE UNCHANGED <<pc, turn, current_prompt, context_metadata>>
    /\ UNCHANGED <<instruction, max_turns, env_info, enable_pre_hooks, enable_planning,
                   task_classification, pre_hook_context, info_parts, response_text,
                   commands, chat>>
    /\ UNCHANGED otherVars

\* the loop over the commands after one command, left with the given commands;
\* after the last one the outputs are folded into the next prompt
ExecStep(output, left) ==
    /\ environment' = Called(Head(pending), CommandTimeoutSec)
    /\ all_output' = Append(all_output, output)
    /\ pending' = left
    /\ IF left = <<>>
       THEN /\ current_prompt' = "Command output:\n" \o Join("\n\n", all_output')
            /\ NextPass(turn, context_metadata)
       ELSE UNCHANGED <<pc, turn, current_prompt, context_metadata>>
    /\ UNCHANGED <<instruction, max_turns, env_info, enable_pre_hooks, enable_planning,
                   task_classification, pre_hook_context, info_parts, response_text,
                   commands, chat>>
    /\ UNCHANGED otherVars

SG_Exec ==
    /\ pc = "exec"
    /\ LET outcome == ExecOutcome(environment.profile, Head(pending))
       IN  /\ ~outcome.raised
           /\ ExecStep(CommandOutput(Head(pending), outcome), Tail(pending))

\* a raise of environment.exec that ends the loop over the commands
SG_ExecRaises_abandons ==
    /\ pc = "exec"
    /\ LET outcome == ExecOutcome(environment.profile, Head(pending))
       IN  /\ outcome.raised
           /\ ExecStep(CommandError(Head(pending), outcome), <<>>)

SG_ExecRaises ==
    /\ pc = "exec"
    /\ LET outcome == ExecOutcome(environment.profile, Head(pending))
       IN  /\ outcome.raised
           /\ ExecStep(CommandError(Head(pending), outcome), Tail(pending))

NextSG ==
    \/ SG_Classify
    \/ SG_PreHook
    \/ SG_PreHookRaises
    \/ SG_EnvCheck
    \/ SG_EnvCheckRaises
    \/ SG_Chat
    \/ SG_ChatRaises
    \/ SG_Exec
    \/ SG_ExecRaises

SpecSG == InitSG /\ [][NextSG]_vars

(* SuperGeniusAgent.run: what a turn leads to *)

\* SuperGeniusAgent._looks_like_error
SuperGenius_error_patterns ==
    <<"error:", "Error:", "ERROR:",
      "failed", "Failed", "FAILED",
      "Traceback (most recent call last)",
      "command not found",
      "No such file or directory",
      "Permission denied">>

SuperGenius_looks_like_error(output) == ContainsAny(output, SuperGenius_error_patterns)

\* the command returns exit code zero and its output holds no failure pattern
CleanCommand(cmd) ==
    LET outcome == ExecOutcome(environment.profile, cmd)
    IN  /\ ~outcome.raised
        /\ outcome.return_code = 0
        /\ ~SuperGenius_looks_like_error(outcome.stdout \o outcome.stderr)

\* at least one command was extracted in this turn and every one of them is clean
CleanTurn == commands # <<>> /\ \A k \in 1..Len(commands) : CleanCommand(commands[k])

\* the run has returned with success recorded at the given turn
SucceededAt(meta, t) ==
    /\ "success" \in DOMAIN meta /\ meta["success"] = TRUE
    /\ "turns_used" \in DOMAIN meta /\ meta["turns_used"] = t

EngineFailed ==
    /\ chat.calls # <<>>
    /\ Answer(chat.script, Len(chat.calls)).raises

\* the run is over, with the error of the engine recorded and without success
StoppedOnError ==
    /\ pc = "done"
    /\ turn = Len(chat.calls)
    /\ "error" \in DOMAIN context_metadata
    /\ context_metadata["error"] = Answer(chat.script, Len(chat.calls)).message
    /\ "success" \in DOMAIN context_metadata
    /\ context_metadata["success"] = FALSE

\* C15: in SuperGeniusAgent.run, once a call of the engine has raised, the loop has
\* stopped at that turn with the error recorded and the outcome not a success, and
\* no step calls the engine (so the call is not retried) or the container again.
C15_EngineErrorStopsLoop ==
    /\ [](EngineFailed => StoppedOnError)
    /\ [][EngineFailed => (chat' = chat /\ environment' = environment)]_vars

\* the engine raised in the second turn, after a turn whose command was dispatched
C15_Witness ==
    /\ pc = "done"
    /\ EngineFailed
    /\ Len(chat.calls) = 2
    /\ \E k \in 1..Len(environment.calls) :
          environment.calls[k] = [cmd |-> "ls -la", timeout_sec |-> CommandTimeoutSec]

Last(xs) == xs[Len(xs)]

\* the commands dispatched so far in this turn are the first extracted ones, in
\* order, one entry of the observation for each, and the rest is still to come
DispatchedInOrder ==
    /\ Len(environment.calls) >= Len(all_output)
    /\ commands = [k \in 1..Len(all_output) |->
                      environment.calls[Len(environment.calls) - Len(all_output) + k].cmd]
                  \o pending
    /\ \A k \in 1..Len(all_output) :
          /\ environment.calls[Len(environment.calls) - Len(all_output) + k].timeout_sec
                = CommandTimeoutSec
          /\ StartsWith(all_output[k], "$ " \o commands[k] \o "\n")

\* C16: in SuperGeniusAgent.run, when environment.exec raises for one extracted
\* command, the observation of the turn gets the entry '$ <command>' followed by
\* 'ERROR: <message>', the commands after it are still dispatched in order, the
\* observation folded into the next prompt has exactly one entry for each extracted
\* command, and the loop goes on to the next turn (or runs out of turns).
C16_ExecErrorIsObserved ==
    /\ [](pc = "exec" => DispatchedInOrder)
    /\ [][(pc = "exec" /\ ExecOutcome(environment.profile, Head(pending)).raised)
          => /\ Last(all_output') =
                   "$ " \o Head(pending) \o "\nERROR: "
                        \o ExecOutcome(environment.profile, Head(pending)).message
             /\ pending' = Tail(pending)
             /\ Last(environment'.calls).cmd = Head(pending)]_vars
    /\ [][(pc = "exec" /\ pc' # "exec")
          => /\ Len(all_output') = Len(commands)
             /\ current_prompt' = "Command output:\n" \o Join("\n\n", all_output')
             /\ IF turn < max_turns * TurnFactor
                THEN pc' = "chat" /\ turn' = turn + 1
                ELSE pc' = "done" /\ ~SucceededAt(context_metadata', turn)]_vars

\* the second of three commands raised, the third was dispatched after it, and
\* the engine is asked again with the three entries
C16_Witness ==
    /\ pc = "chat"
    /\ turn = 2
    /\ Len(commands) = 3
    /\ Len(all_output) = 3
    /\ all_output[2] = "$ sleep 120\nERROR: Command timed out after 60 seconds"
    /\ StartsWith(all_output[3], "$ make\n")
    /\ Last(environment.calls).cmd = "make"
    /\ current_prompt = "Command output:\n" \o Join("\n\n", all_output)

(* SuperGeniusAgent.run: responses without commands, the turn budget, the order of calls *)

\* the engine has just answered a call and the answer holds no command
AnsweredWithoutCommands ==
    /\ pc = "chat"
    /\ ~Answer(chat.script, Len(chat.calls) + 1).raises
    /\ commands' = <<>>

\* C21: in SuperGeniusAgent.run, the step in which a response yields no command
\* ends the run with success at that turn when the response holds a completion
\* phrase; otherwise it calls environment.exec for no command, makes the nudge the
\* next prompt and enters the next turn (or leaves the loop after the last turn).
C21_NoCommandCompletesOrNudges ==
    [][AnsweredWithoutCommands
       => /\ environment' = environment
          /\ IF \E k \in 1..Len(CompletionPhrases) :
                    Contains(Lower(response_text'), CompletionPhrases[k])
             THEN pc' = "done" /\ SucceededAt(context_metadata', turn)
             ELSE /\ current_prompt' =
                       "Please provide a bash command to execute, or indicate if the task is complete."
                  /\ IF turn < max_turns * TurnFactor
                     THEN pc' = "chat" /\ turn' = turn + 1
                     ELSE pc' = "done" /\ ~SucceededAt(context_metadata', turn)]_vars

\* a first response without commands was answered with the nudge, and the
\* second response, which holds a completion phrase, ended the run at turn 2
C21_Witness ==
    /\ pc = "done"
    /\ SucceededAt(context_metadata, 2)
    /\ Len(chat.calls) = 2
    /\ chat.calls[2].prompt =
          "Please provide a bash command to execute, or indicate if the task is complete."
    /\ commands = <<>>
    /\ \A k \in 1..Len(environment.calls) :
          environment.calls[k].timeout_sec # CommandTimeoutSec

\* the run is over without success and without an error of the engine
EndedWithoutSuccess ==
    /\ pc = "done"
    /\ "error" \notin DOMAIN context_metadata
    /\ ~("success" \in DOMAIN context_metadata /\ context_metadata["success"])

\* the loop calls the engine at most budget times, starts no turn beyond the
\* budget, and a run that ends without success has consumed the whole budget
\* and says so: success False, turns_used the budget
WithinBudget(budget) ==
    /\ Len(chat.calls) <= budget
    /\ (pc \in {"chat", "exec"} => turn <= budget)
    /\ EndedWithoutSuccess
          => /\ Len(context_metadata["turns"]) = budget
             /\ "success" \in DOMAIN context_metadata
             /\ context_metadata["success"] = FALSE
             /\ context_metadata["turns_used"] = budget

\* C22 (as stated): SuperGeniusAgent.run calls the engine at most max_turns times
\* per task, nudge turns included, and declares exhaustion once max_turns turns
\* have been consumed without success.
C22_BudgetIsMaxTurns == WithinBudget(max_turns)

\* C22 (amended): SuperGeniusAgent.run calls the engine at most max_turns * 10
\* times per task, nudge turns included, and declares exhaustion once
\* max_turns * 10 turns have been consumed without success.
C22_BudgetIsTenTimesMaxTurns == WithinBudget(max_turns * TurnFactor)

\* a run with max_turns = 1 that was nudged through ten turns and ran out
C22_Witness ==
    /\ EndedWithoutSuccess
    /\ max_turns = 1
    /\ Len(chat.calls) = 10
    /\ chat.calls[10].prompt = Nudge
    /\ context_metadata["turns_used"] = 10

\* the calls of chat.chat and of environment.exec made so far
CallsMade == Len(chat.calls) + Len(environment.calls)

\* C23: in SuperGeniusAgent.run every step, which runs from the resumption of
\* the coroutine through one awaited call to its return or raise, makes at most
\* one call of the engine or of environment.exec; the commands of a turn are
\* dispatched one at a time in the order of their extraction; and the engine is
\* called for the next turn only when no command of the turn is left and the
\* prompt it gets holds the output or error of every command of the turn.
C23_OneCallAtATime ==
    /\ [][CallsMade' <= CallsMade + 1]_vars
    /\ [][(pc = "exec" /\ environment' # environment)
          => /\ environment'.calls =
                   Append(environment.calls,
                          [cmd |-> commands[Len(all_output) + 1],
                           timeout_sec |-> CommandTimeoutSec])
             /\ Len(all_output') = Len(all_output) + 1
             /\ chat' = chat]_vars
    /\ [][chat' # chat
          => /\ pc = "chat"
             /\ pending = <<>>
             /\ environment' = environment
             /\ chat'.calls =
                   Append(chat.calls, [prompt |-> current_prompt, max_tokens |-> MaxTokens])
             /\ (turn > 1 /\ commands # <<>>)
                   => /\ Len(all_output) = Len(commands)
                      /\ current_prompt = "Command output:\n" \o Join("\n\n", all_output)]_vars

\* the engine has been called for turn 2 after the three commands of turn 1
\* were dispatched in their order
C23_Witness ==
    /\ Len(chat.calls) = 2
    /\ Len(environment.calls) >= 3
    /\ [k \in 1..3 |-> environment.calls[Len(environment.calls) - 3 + k].cmd]
          = <<"cat missing.txt", "sleep 120", "make">>
    /\ chat.calls[2].prompt = "Command output:\n" \o Join("\n\n", all_output)
    /\ Len(all_output) = 3

(* uam_harbor/pre_execution_hooks.py and uam_harbor/uam_agent.py: tables *)

\* PRE_EXECUTION_HOOKS of pre_execution_hooks.py, in the order of the dictionary.
\* In the three tables of this section a tilde stands for a backquote of the
\* source and a question mark for each non-ASCII character.
hooks_PRE_EXECUTION_HOOKS ==
    <<[name |-> "db-wal-recovery",
       detection_keywords |-> <<"wal",
                              "db-wal",
                              "sqlite",
                              "recovery">>,
       description |-> "Backup WAL file before agent can checkpoint it",
       commands |->
          <<"cp /app/main.db-wal /tmp/wal_backup.wal 2>/dev/null || true",
            "cp /app/main.db-wal /app/main.db-wal.backup 2>/dev/null || true",
            "echo \"WAL backed up to /tmp/wal_backup.wal\"">>,
       critical |-> TRUE,
       reason |-> "sqlite3 auto-checkpoints WAL on connect, destroying uncommitted data"],
      [name |-> "filter-js-from-html",
       detection_keywords |-> <<"filter",
                              "javascript",
                              "html",
                              "xss">>,
       description |-> "Setup XSS filtering with format-preserving approach",
       commands |->
          <<"cat > /tmp/filter_template.py << 'FILTER'\n#!/usr/bin/env python3\n\"\"\"\nXSS Filter - Removes JavaScript while preserving clean HTML byte-for-byte.\n\nCRITICAL: Do NOT use bleach or BeautifulSoup - they normalize HTML and break tests.\nUse regex-based removal that only modifies dangerous content.\n\"\"\"\nimport re\nimport sys\n\n# Patterns that indicate dangerous content\nDANGEROUS_PATTERNS = [\n    r'<script[^>]*>.*?</script>',  # script tags\n    r'<script[^>]*/>',              # self-closing script\n    r'\\bon\\w+\\s*=',               # event handlers (onclick, onerror, etc.)\n    r'javascript\\s*:',              # javascript: URLs\n    r'vbscript\\s*:',                # vbscript: URLs  \n    r'<iframe[^>]*>.*?</iframe>',   # iframes\n    r'<iframe[^>]*/>',              # self-closing iframe\n    r'<object[^>]*>.*?</object>',   # objects\n    r'<embed[^>]*>.*?</embed>',     # embeds\n    r'<embed[^>]*/?>',              # self-closing embed\n    r'expression\\s*\\(',            # CSS expressions\n    r'<svg[^>]*>.*?</svg>',         # SVG (can contain scripts)\n]\n\ndef has_dangerous_content(html):\n    \"\"\"Check if HTML contains any dangerous patterns.\"\"\"\n    for pattern in DANGEROUS_PATTERNS:\n        if re.search(pattern, html, re.IGNORECASE | re.DOTALL):\n            return True\n    return False\n\ndef sanitize_html(html):\n    \"\"\"Remove dangerous content from HTML using regex.\"\"\"\n    result = html\n    \n    # Remove script tags and content\n    result = re.sub(r'<script[^>]*>.*?</script>', '', result, flags=re.IGNORECASE | re.DOTALL)\n    result = re.sub(r'<script[^>]*/>', '', result, flags=re.IGNORECASE)\n    \n    # Remove event handlers (onclick, onerror, onload, etc.)\n    result = re.sub(r'\\s+on\\w+\\s*=\\s*[\"\\''][^\"\\'']*[\"\\'']', '', result, flags=re.IGNORECASE)\n    result = re.sub(r'\\s+on\\w+\\s*=\\s*[^\\s>]+', '', result, flags=re.IGNORECASE)\n    \n    # Remove javascript: and vbscript: URLs\n    result = re.sub(r'href\\s*=\\s*[\"\\'']\\s*javascript:[^\"\\'']*[\"\\'']', 'href=\"#\"', result, flags=re.IGNORECASE)\n    result = re.sub(r'src\\s*=\\s*[\"\\'']\\s*javascript:[^\"\\'']*[\"\\'']', 'src=\"\"', result, flags=re.IGNORECASE)\n    \n    # Remove iframe, object, embed tags\n    result = re.sub(r'<iframe[^>]*>.*?</iframe>', '', result, flags=re.IGNORECASE | re.DOTALL)\n    result = re.sub(r'<object[^>]*>.*?</object>', '', result, flags=re.IGNORECASE | re.DOTALL)\n    result = re.sub(r'<embed[^>]*/?>', '', result, flags=re.IGNORECASE)\n    \n    # Remove SVG (can contain malicious scripts)\n    result = re.sub(r'<svg[^>]*>.*?</svg>', '', result, flags=re.IGNORECASE | re.DOTALL)\n    \n    return result\n\ndef filter_html(html):\n    \"\"\"\n    Filter HTML: remove XSS vectors while preserving clean HTML exactly.\n    \n    CRITICAL: If no dangerous content, return ORIGINAL unchanged (byte-for-byte).\n    \"\"\"\n    if not has_dangerous_content(html):\n        return html  # PRESERVE ORIGINAL EXACTLY - no modification!\n    return sanitize_html(html)\n\ndef main():\n    if len(sys.argv) != 3:\n        print(f\"Usage: {sys.argv[0]} <input.html> <output.html>\", file=sys.stderr)\n        sys.exit(1)\n    \n    input_path = sys.argv[1]\n    output_path = sys.argv[2]\n    \n    with open(input_path, 'r', encoding='utf-8') as f:\n        html = f.read()\n    \n    filtered = filter_html(html)\n    \n    with open(output_path, 'w', encoding='utf-8') as f:\n        f.write(filtered)\n\nif __name__ == '__main__':\n    main()\nFILTER\nchmod +x /tmp/filter_template.py\necho \"Filter template saved to /tmp/filter_template.py\"",
            "cat > /tmp/xss_filter_strategy.txt << 'STRATEGY'\n=== XSS FILTER - CRITICAL REQUIREMENTS ===\n\n1. Clean HTML must remain BYTE-FOR-BYTE IDENTICAL after filtering\n2. XSS attacks must be neutralized (no alert() execution in browser)\n\nDO NOT USE: bleach, BeautifulSoup, lxml, html5lib\nREASON: They all normalize/reformat HTML, breaking requirement #1\n\nUSE: Regex-based filtering (see /tmp/filter_template.py)\n\nAPPROACH:\n1. Check if HTML has dangerous patterns\n2. If CLEAN: return original UNCHANGED\n3. If DANGEROUS: use regex to remove only malicious parts\n\nA WORKING TEMPLATE IS PROVIDED AT: /tmp/filter_template.py\nYou can copy it to /app/filter.py and modify as needed.\n\ncp /tmp/filter_template.py /app/filter.py\n\nTEST:\n- Clean HTML in -> identical HTML out\n- XSS attack in -> attack removed, no alert()\nSTRATEGY\necho \"Strategy saved to /tmp/xss_filter_strategy.txt\"">>,
       critical |-> TRUE,
       reason |-> "XSS filter must preserve clean HTML byte-for-byte while blocking attacks"],
      [name |-> "gpt2-codegolf",
       detection_keywords |-> <<"gpt2",
                              "gpt-2",
                              "124m",
                              "codegolf",
                              "inference">>,
       description |-> "Download reference implementation for guidance",
       commands |->
          <<"which curl && curl -sL https://raw.githubusercontent.com/karpathy/llm.c/master/train_gpt2.c -o /tmp/llm_reference.c 2>/dev/null || true">>,
       critical |-> FALSE,
       reason |-> "Provides reference implementation for checkpoint format"],
      [name |-> "regex-chess",
       detection_keywords |-> <<"regex",
                              "chess",
                              "re.json",
                              "legal move">>,
       description |-> "Install python-chess for move generation reference",
       commands |->
          <<"pip install python-chess 2>/dev/null || pip3 install python-chess">>,
       critical |-> FALSE,
       reason |-> "Provides correct move generation for regex pattern building"],
      [name |-> "chess-best-move",
       detection_keywords |-> <<"chess",
                              "best move",
                              "board",
                              "image">>,
       description |-> "Install chess libraries, image recognition, and stockfish",
       commands |->
          <<"pip install python-chess pillow opencv-python-headless numpy 2>/dev/null || pip3 install python-chess pillow opencv-python-headless numpy",
            "pip install board_to_fen 2>/dev/null || pip3 install board_to_fen 2>/dev/null || true",
            "apt-get update && apt-get install -y stockfish tesseract-ocr 2>/dev/null || true",
            "cat > /tmp/extract_fen.py << 'FENSCRIPT'\n#!/usr/bin/env python3\n\"\"\"Chess board image to FEN converter - uses board_to_fen if available, falls back to manual.\"\"\"\nimport sys\ntry:\n    from board_to_fen import predict\n    fen = predict(sys.argv[1])\n    print(fen)\nexcept ImportError:\n    print(\"board_to_fen not available - manual FEN entry required\", file=sys.stderr)\n    sys.exit(1)\nexcept Exception as e:\n    print(f\"Error: {e}\", file=sys.stderr)\n    sys.exit(1)\nFENSCRIPT\nchmod +x /tmp/extract_fen.py">>,
       critical |-> TRUE,
       reason |-> "Visual FEN extraction unreliable - need image recognition library"],
      [name |-> "code-from-image",
       detection_keywords |-> <<"code",
                              "image",
                              "ocr",
                              "screenshot",
                              "extract">>,
       description |-> "Install OCR tools for code extraction from images",
       commands |->
          <<"pip install pytesseract pillow opencv-python-headless 2>/dev/null || pip3 install pytesseract pillow opencv-python-headless",
            "apt-get update && apt-get install -y tesseract-ocr 2>/dev/null || true">>,
       critical |-> FALSE,
       reason |-> "OCR required for extracting code from images"],
      [name |-> "write-compressor",
       detection_keywords |-> <<"compress",
                              "decompressor",
                              "decomp",
                              "encode">>,
       description |-> "Analyze provided decompressor and create matching encoder",
       commands |->
          <<"if [ -f /app/decomp.c ] || [ -f /app/decomp2.c ]; then\n    DECOMP_FILE=$(ls /app/decomp*.c 2>/dev/null | head -1)\n    echo \"=== DECODER ANALYSIS ===\" > /tmp/decoder_analysis.txt\n    echo \"File: $DECOMP_FILE\" >> /tmp/decoder_analysis.txt\n    echo \"\" >> /tmp/decoder_analysis.txt\n    echo \"=== FULL SOURCE ===\" >> /tmp/decoder_analysis.txt\n    cat \"$DECOMP_FILE\" >> /tmp/decoder_analysis.txt 2>/dev/null || true\n    echo \"Decoder analysis saved to /tmp/decoder_analysis.txt\"\nfi",
            "cat > /tmp/encoder_template.py << 'ENCODER'\n#!/usr/bin/env python3\n\"\"\"\nArithmetic Coding Encoder - matches the decomp.c decoder format.\n\nThis is a TEMPLATE - you MUST verify it matches your specific decoder.\nThe decoder uses arithmetic coding with:\n- get_bit(): reads one bit from the bitstream\n- get_integer(base, bits): reads a value using arithmetic coding\n- LZ77-style back-references (offset, length pairs)\n\"\"\"\nimport sys\nimport struct\n\nclass ArithmeticEncoder:\n    def __init__(self):\n        self.low = 0\n        self.high = 0xFFFFFFFF\n        self.pending = 0\n        self.output = bytearray()\n        \n    def encode_bit(self, bit, prob=128):\n        \"\"\"Encode a single bit with given probability (0-255 for 0).\"\"\"\n        range_ = self.high - self.low + 1\n        mid = self.low + (range_ * prob) // 256\n        \n        if bit:\n            self.low = mid + 1\n        else:\n            self.high = mid\n            \n        while True:\n            if self.high < 0x80000000:\n                self.output_bit(0)\n                self.low <<= 1\n                self.high = (self.high << 1) | 1\n            elif self.low >= 0x80000000:\n                self.output_bit(1)\n                self.low = (self.low << 1) & 0xFFFFFFFF\n                self.high = ((self.high << 1) | 1) & 0xFFFFFFFF\n            elif self.low >= 0x40000000 and self.high < 0xC0000000:\n                self.pending += 1\n                self.low = (self.low << 1) & 0x7FFFFFFF\n                self.high = ((self.high << 1) | 0x80000001) & 0xFFFFFFFF\n            else:\n                break\n                \n    def output_bit(self, bit):\n        self.output.append(bit)\n        while self.pending > 0:\n            self.output.append(1 - bit)\n            self.pending -= 1\n            \n    def finish(self):\n        \"\"\"Flush remaining bits.\"\"\"\n        self.pending += 1\n        if self.low < 0x40000000:\n            self.output_bit(0)\n        else:\n            self.output_bit(1)\n        # Pack bits into bytes\n        result = bytearray()\n        for i in range(0, len(self.output), 8):\n            byte = 0\n            for j in range(8):\n                if i + j < len(self.output):\n                    byte = (byte << 1) | self.output[i + j]\n                else:\n                    byte <<= 1\n            result.append(byte)\n        return bytes(result)\n\ndef compress_simple(data):\n    \"\"\"\n    Simple compression: store literals directly.\n    For the arithmetic decoder, we need to encode:\n    - Control bit (0 = literal, 1 = back-reference)\n    - Literal value\n    \n    This is a MINIMAL implementation - may need adjustment for your decoder.\n    \"\"\"\n    # Just output raw bytes - simplest possible format\n    # Many decoders expect raw data if no compression scheme matches\n    return data\n\ndef main():\n    if len(sys.argv) != 3:\n        print(f\"Usage: {sys.argv[0]} <input> <output>\", file=sys.stderr)\n        sys.exit(1)\n        \n    with open(sys.argv[1], 'rb') as f:\n        data = f.read()\n        \n    # Try compression\n    compressed = compress_simple(data)\n    \n    with open(sys.argv[2], 'wb') as f:\n        f.write(compressed)\n        \n    print(f\"Input: {len(data)} bytes, Output: {len(compressed)} bytes\")\n\nif __name__ == '__main__':\n    main()\nENCODER\nchmod +x /tmp/encoder_template.py\necho \"Encoder template saved to /tmp/encoder_template.py\"",
            "cat > /tmp/compression_strategy.txt << 'STRATEGY'\n=== COMPRESSION TASK - CRITICAL GUIDANCE ===\n\nThis task requires writing an ENCODER that produces output the DECODER can read.\nThe decoder uses ARITHMETIC CODING - a complex compression scheme.\n\nSTEP 1: UNDERSTAND THE DECODER\nRead /tmp/decoder_analysis.txt carefully. Look for:\n- How it reads bits: get_bit(), getchar()\n- How it decodes integers: get_integer(base, bits)\n- The decompression loop structure (literals vs back-references)\n\nSTEP 2: MATCH THE FORMAT EXACTLY\nThe decoder expects a SPECIFIC bitstream format. Common patterns:\n- Arithmetic coded bits with specific probability model\n- LZ77-style (offset, length, literal) triples\n- Specific header bytes or magic numbers\n\nSTEP 3: TEST INCREMENTALLY\n~~~bash\n# Test with 1 character first\necho -n \"A\" > /tmp/test1.txt\npython3 /app/compress.py /tmp/test1.txt /tmp/test1.comp\ncat /tmp/test1.comp | /app/decomp > /tmp/test1.out\ndiff /tmp/test1.txt /tmp/test1.out && echo \"PASS\" || echo \"FAIL\"\n\n# If that works, try the full file\npython3 /app/compress.py /app/data.txt /app/data.comp\ncat /app/data.comp | /app/decomp > /tmp/full.out\ndiff /app/data.txt /tmp/full.out && echo \"PASS\" || echo \"FAIL\"\n~~~\n\nCOMMON MISTAKES:\n1. Wrong bit order (MSB vs LSB)\n2. Wrong probability model\n3. Missing termination marker\n4. Text mode instead of binary mode\n\nIF DECOMPRESSOR OUTPUTS GARBAGE:\n- Your encoding doesn't match decoder's expectations\n- Check the decoder's main loop - what does it expect first?\n- The decoder might expect: magic header, length prefix, or specific bit pattern\n\nTEMPLATE: /tmp/encoder_template.py has a starting point\nWARNING: The template may need significant modification for your decoder!\nSTRATEGY\necho \"Compression strategy saved to /tmp/compression_strategy.txt\"",
            "cat > /tmp/verify_compression.sh << 'VERIFY'\n#!/bin/bash\necho \"=== Compression Verification ===\"\n\nDECOMP=$(ls /app/decomp2 /app/decomp 2>/dev/null | head -1)\nINPUT=/app/data.txt\nCOMPRESSED=/app/data.comp\nOUTPUT=/tmp/verify.out\n\nif [ ! -f \"$COMPRESSED\" ]; then\n    echo \"ERROR: $COMPRESSED not found\"\n    exit 1\nfi\n\necho \"Input size: $(wc -c < $INPUT) bytes\"\necho \"Compressed size: $(wc -c < $COMPRESSED) bytes\"\n\n# Decompress\ncat \"$COMPRESSED\" | \"$DECOMP\" > \"$OUTPUT\" 2>&1\nDECOMP_STATUS=$?\n\nif [ $DECOMP_STATUS -ne 0 ]; then\n    echo \"ERROR: Decompressor crashed (exit code $DECOMP_STATUS)\"\n    exit 1\nfi\n\nOUTPUT_SIZE=$(wc -c < \"$OUTPUT\")\nINPUT_SIZE=$(wc -c < \"$INPUT\")\n\necho \"Decompressed size: $OUTPUT_SIZE bytes\"\n\nif [ \"$OUTPUT_SIZE\" -ne \"$INPUT_SIZE\" ]; then\n    echo \"FAIL: Size mismatch (expected $INPUT_SIZE, got $OUTPUT_SIZE)\"\n    echo \"First 100 bytes of output:\"\n    head -c 100 \"$OUTPUT\" | xxd\n    exit 1\nfi\n\nif diff -q \"$INPUT\" \"$OUTPUT\" > /dev/null 2>&1; then\n    echo \"SUCCESS: Round-trip verified!\"\nelse\n    echo \"FAIL: Content mismatch\"\n    echo \"First difference:\"\n    diff \"$INPUT\" \"$OUTPUT\" | head -20\n    exit 1\nfi\nVERIFY\nchmod +x /tmp/verify_compression.sh\necho \"Verification script saved to /tmp/verify_compression.sh\"">>,
       critical |-> TRUE,
       reason |-> "Compression requires matching encoder to decoder format - incremental testing essential"],
      [name |-> "winning-avg-corewars",
       detection_keywords |-> <<"corewars",
                              "warrior",
                              "pmars",
                              "redcode",
                              "win rate">>,
       description |-> "Research winning strategies against provided opponents",
       commands |->
          <<"if [ -d /app/warriors ]; then\n    echo \"=== OPPONENT ANALYSIS ===\" > /tmp/opponent_analysis.txt\n    for f in /app/warriors/*.red; do\n        echo \"--- $(basename $f) ---\" >> /tmp/opponent_analysis.txt\n        head -30 \"$f\" >> /tmp/opponent_analysis.txt\n    done\n    echo \"Opponent analysis saved to /tmp/opponent_analysis.txt\"\nfi",
            "cat > /tmp/corewars_strategies.txt << 'STRATEGY'\n=== COREWARS WINNING STRATEGIES ===\n\nPAPER beats STONE (self-replication faster than bombing)\nIMP ties but rarely wins (defensive, avoids DAT bombs)\nVAMPIRE captures processes (JMP traps)\nSCANNER detects and targets opponent code\n\nRECOMMENDED APPROACH for Stone opponent:\n1. Use Paper-style self-replication\n2. Combine with Imp backup for ties\n3. Add bomber component against non-stone\n\nPAPER EXAMPLE:\n    spl 0, 0\n    mov -1, @0\n    add #100, -1\n    jmz -2, @-2\nSTRATEGY\necho \"Strategy guide saved to /tmp/corewars_strategies.txt\"">>,
       critical |-> FALSE,
       reason |-> "Domain-specific strategies essential for competitive tasks"]>>

\* the dictionary contexts of get_post_execution_context
post_execution_contexts ==
    <<[name |-> "db-wal-recovery",
       context |->
          "## Pre-Execution Hook Results\n\nThe WAL file has been backed up to protect it from accidental checkpointing:\n- Original: /app/main.db-wal (may be gone after sqlite3)\n- Backup: /tmp/wal_backup.wal (PRESERVED)\n- Backup: /app/main.db-wal.backup (PRESERVED)\n\n**USE THE BACKUP FILES** for WAL parsing. The original may be gone.\nParse /tmp/wal_backup.wal with Python to extract the 11 records."],
      [name |-> "gpt2-codegolf",
       context |->
          "## Pre-Execution Hook Results\n\nReference implementation downloaded (if curl available):\n- /tmp/llm_reference.c - llm.c train_gpt2.c for checkpoint format reference\n\nCheck this file for weight layout and BPE tokenizer details."],
      [name |-> "regex-chess",
       context |->
          "## Pre-Execution Hook Results\n\npython-chess has been pre-installed. Use it to:\n1. Generate legal moves for test positions\n2. Understand move notation\n3. Build and test your regex patterns"],
      [name |-> "filter-js-from-html",
       context |->
          "## Pre-Execution Hook Results\n\n**A WORKING FILTER HAS BEEN PROVIDED**: /tmp/filter_template.py\n\nTO USE IT (RECOMMENDED - saves time and passes tests):\n~~~bash\ncp /tmp/filter_template.py /app/filter.py\n~~~\n\nThe template:\n- Preserves clean HTML byte-for-byte (critical requirement)\n- Removes XSS attacks via regex\n- Handles script tags, event handlers, javascript: URLs, iframes, etc.\n\n**DO NOT USE**: bleach, BeautifulSoup, lxml, html5lib\nThese libraries NORMALIZE HTML and will fail the clean-HTML-unchanged test.\n\nIf you need to customize, modify /app/filter.py after copying.\nRead /tmp/xss_filter_strategy.txt for details."],
      [name |-> "chess-best-move",
       context |->
          "## Pre-Execution Hook Results\n\nChess image recognition tools installed:\n- board_to_fen: For converting chess board images to FEN (may not be available)\n- python-chess: For move validation and analysis\n- stockfish: For finding best moves\n- /tmp/extract_fen.py: Helper script for FEN extraction\n\n**CRITICAL**: Do NOT rely on visual reasoning for FEN. Try:\n1. python3 /tmp/extract_fen.py /app/chess_board.png\n2. If that fails, use stockfish with position from task or manually\n3. Use stockfish for ALL move calculations"],
      [name |-> "code-from-image",
       context |->
          "## Pre-Execution Hook Results\n\nOCR tools installed:\n- tesseract-ocr: For text extraction from images\n- pytesseract: Python wrapper for tesseract\n\nUse: pytesseract.image_to_string(Image.open('image.png'))"],
      [name |-> "write-compressor",
       context |->
          "## Pre-Execution Hook Results\n\nResources prepared for compression task:\n- /tmp/decoder_analysis.txt: Full decoder source code\n- /tmp/compression_strategy.txt: Step-by-step approach\n- /tmp/encoder_template.py: Starting point for encoder (needs modification!)\n- /tmp/verify_compression.sh: Verification script\n\n**APPROACH:**\n1. Read /tmp/decoder_analysis.txt - understand the decoder format\n2. The decoder uses ARITHMETIC CODING - complex bitstream format\n3. Test with TINY input first: ~echo -n \"A\" > /tmp/test.txt~\n4. Verify round-trip before trying full file\n\n**IF DECOMPRESSOR OUTPUTS GARBAGE:**\n- Your encoding format doesn't match decoder expectations\n- Check decoder's main loop - what does it read first?\n- Look for: get_bit(), get_integer() - these define the format\n\n**VERIFICATION:**\n~~~bash\n/tmp/verify_compression.sh  # Run after creating data.comp\n~~~\n\nTest incrementally: 1 char -> 10 chars -> full file"],
      [name |-> "winning-avg-corewars",
       context |->
          "## Pre-Execution Hook Results\n\nStrategy resources prepared:\n- /tmp/opponent_analysis.txt: Analysis of provided opponent warriors\n- /tmp/corewars_strategies.txt: Winning strategy guide\n\n**KEY INSIGHT**: Paper beats Stone! Use self-replication strategy.\nRead /tmp/corewars_strategies.txt for specific tactics."]>>

\* UAM_PREAMBLE of uam_harbor/uam_agent.py
UAM_PREAMBLE ==
    "## UAM AGENT PROTOCOL v10.8 - STRICT ENFORCEMENT\n\n?? CRITICAL: You MUST print ALL required blocks marked with ?. Skipping = FAILURE.\n\n---\n\n### ? BLOCK 1: PATTERN ROUTER (PRINT THIS FIRST)\n~~~\n????????????????????????????????????????????????????????????????\n?                    PATTERN ROUTER v10.8                       ?\n????????????????????????????????????????????????????????????????\n? Task: [ONE LINE SUMMARY]                                      ?\n????????????????????????????????????????????????????????????????\n? ACTIVE PATTERNS (mark [X] for yes, [ ] for no):              ?\n?                                                               ?\n? DOMAIN:                                                       ?\n? [ ] P21-Chess: use Stockfish, find ALL moves                 ?\n? [ ] P22-Git: backup .git FIRST, then forensic recovery       ?\n? [ ] P23-Compress: check impossible, verify round-trip        ?\n? [ ] P24-Polyglot: clean output dir, keep ONLY source         ?\n? [ ] P25-Service: smoke test BEFORE completing                ?\n?                                                               ?\n? VERIFICATION:                                                 ?\n? [ ] P27-Cleanup: remove non-required files from output       ?\n? [ ] P28-Smoke: test every service before done                ?\n? [ ] P29-Multi: find ALL solutions, not just first            ?\n? [ ] P30-Threshold: iterate until % targets met               ?\n? [ ] P31-RoundTrip: verify compress?decompress works          ?\n?                                                               ?\n? CORE (check ALL that apply):                                  ?\n? [ ] P12-Output: verify files exist before done               ?\n? [ ] P17-Constraint: check \"exactly/only/single\" rules        ?\n? [ ] P26-Iterate: if >50% pass, iterate on failures           ?\n????????????????????????????????????????????????????????????????\n~~~\n\n### ? BLOCK 2: TASK-FIRST FILE CREATION\nIMMEDIATELY create placeholder files for ALL expected outputs:\n~~~bash\n# List expected outputs from task, then:\ntouch /app/output1.txt /app/output2.json  # Create ALL placeholders NOW\nls -la /app/  # Confirm files exist\n~~~\n\n### STEP 3: IMPLEMENT (Apply Active Patterns)\n\n**P21-Chess**: Install Stockfish, use multipv for ALL winning moves:\n~~~bash\napt-get install -y stockfish\necho -e \"position fen [FEN]\\ngo depth 20 multipv 10\" | timeout 30 stockfish\n# Write ALL checkmate moves to output, not just first\n~~~\n\n**P22-Git**: ALWAYS backup before ANY git operation:\n~~~bash\ncp -r .git .git.bak  # MANDATORY FIRST\ngit fsck --full 2>&1\ngit reflog --all\n~~~\n\n**P23-Compress**: ALWAYS test round-trip:\n~~~bash\npython compress.py input.txt output.comp\npython decompress.py output.comp recovered.txt\ndiff input.txt recovered.txt && echo \"ROUND-TRIP OK\" || echo \"ROUND-TRIP FAILED - FIX NOW\"\n~~~\n\n**P24-Polyglot**: CLEAN output directory after testing:\n~~~bash\n# After compiling and testing, remove ALL binaries:\nrm -f /app/polyglot/*.o /app/polyglot/main /app/polyglot/cmain /app/polyglot/*.out\nls /app/polyglot/  # MUST show ONLY main.rs\n~~~\n\n**P25-Service**: SMOKE TEST every service:\n~~~bash\n# After starting service, IMMEDIATELY test:\nsleep 2  # Wait for startup\ncurl -v http://localhost:8080/ 2>&1 | head -20\n# If no response: debug and fix BEFORE continuing\n~~~\n\n### ? BLOCK 3: RUN TESTS NOW (MANDATORY)\n**BEFORE saying done, you MUST run tests:**\n~~~bash\n# Find and run tests - try in order:\npytest /tests/ -v 2>&1 | tee /tmp/results.txt || pytest ../tests/ -v 2>&1 | tee /tmp/results.txt || pytest -v 2>&1 | tee /tmp/results.txt\n\n# Check results\ncat /tmp/results.txt | tail -20\n~~~\n\n**If tests fail:**\n1. READ the error message carefully\n2. FIX the specific issue\n3. RE-RUN tests\n4. REPEAT until 100% pass\n\n### ? BLOCK 4: PRE-COMPLETION CHECKLIST (PRINT BEFORE \"DONE\")\n~~~\n????????????????????????????????????????????????????????????????\n?              PRE-COMPLETION CHECKLIST v10.8                   ?\n????????????????????????????????????????????????????????????????\n? You MUST verify ALL items. Mark [X] when confirmed:          ?\n?                                                               ?\n? OUTPUT VERIFICATION:                                          ?\n? [ ] 1. ALL expected output files exist (ls -la /app/)        ?\n? [ ] 2. Output files contain valid content (not empty)        ?\n? [ ] 3. Output directory contains ONLY required files (P27)   ?\n?                                                               ?\n? TEST VERIFICATION:                                            ?\n? [ ] 4. Ran pytest -v and checked results                     ?\n? [ ] 5. If any tests failed: iterated to fix them             ?\n? [ ] 6. Final test run shows 100% pass (or documented why)    ?\n?                                                               ?\n? PATTERN-SPECIFIC:                                             ?\n? [ ] 7. If P25/P28: service responds to smoke test            ?\n? [ ] 8. If P31: round-trip verification passed                ?\n? [ ] 9. If P29: found ALL solutions, not just first           ?\n? [ ] 10. If P30: performance thresholds met                   ?\n?                                                               ?\n? ??  DO NOT say \"done\" until ALL applicable items are [X]     ?\n????????????????????????????????????????????????????????????????\n~~~\n\n### ITERATION PROTOCOL (P26)\nIf tests show partial success (some passing, some failing):\n~~~bash\n# 1. Run tests with FULL output\npytest -v 2>&1 | tee /tmp/results.txt\n\n# 2. Count results\nPASSED=$(grep -c \"PASSED\" /tmp/results.txt || echo 0)\nFAILED=$(grep -c \"FAILED\" /tmp/results.txt || echo 0)\necho \"Status: $PASSED passed, $FAILED failed\"\n\n# 3. If ANY tests failing, READ THE ACTUAL ERROR:\ngrep -A30 \"FAILED\\|AssertionError\\|Error:\" /tmp/results.txt\n\n# 4. MATCH error to fix pattern below, then apply fix\n# 5. Re-run tests\n# 6. Repeat until 100% - DO NOT STOP WITH FAILING TESTS\n~~~\n\n### ERROR ? FIX MATCHING (Use when tests fail)\nRead the error message and apply the matching fix:\n\n| Error Contains | Root Cause | Fix |\n|----------------|------------|-----|\n| \"Segmentation fault\" | Buffer overflow | Use larger buffers or malloc() |\n| \"stack smashing\" | Array overflow | Increase array size 10x |\n| \"infinite boundary\" | Bad ARS bounds | Use finite bounds: c(-5, 5) |\n| \"need X% win rate\" | Wrong strategy | Use counter-strategy (paper beats stone) |\n| \"round-trip\" / \"decompress\" | Encode/decode mismatch | Test: compress?decompress?diff |\n| \"file not found\" | Missing output | Create the file before completing |\n| \"permission denied\" | Wrong permissions | chmod 755 or run as correct user |\n\n### COMMON FAILURE FIXES (Apply When Errors Match)\n\n**\"stack smashing detected\" / Buffer Overflow**:\n- Your C/C++ code has buffer overflow\n- Increase buffer sizes: ~char buf[1024]~ ? ~char buf[65536]~\n- Use bounds checking: ~if (i < sizeof(buf)) buf[i] = c;~\n\n**\"Cannot load image\" / File Read Errors**:\n- Check file path is correct: ~ls -la /app/*.png~\n- Use absolute paths in code\n- Verify file permissions: ~chmod 644 /app/image.png~\n\n**\"Expected X but got Y\" (Wrong Output Value)**:\n- Read the test to understand expected format\n- Check your logic/calculation\n- Verify input file is being read correctly\n\n**\"Decompression failed\" / \"Segmentation fault\" in C**:\n- Buffer overflow in your C code - use larger buffers\n- Test round-trip: ~./compress < input | ./decompress | diff - input~\n- Use dynamic allocation: ~malloc()~ instead of fixed arrays\n- Add bounds checking before array access\n\n**R/Python \"infinite boundary\" / Statistical Errors**:\n- Use FINITE bounds: ~c(-10, 10)~ not ~c(-Inf, Inf)~\n- Initialize with points where derivative changes sign\n- Check function signature matches test expectations\n- For normal distribution: derivative is ~-x~, use bounds like ~c(-5, 5)~\n\n**Game/Competition \"need X% win rate\"**:\n- Identify opponent's strategy type (bomber, replicator, scanner)\n- Use counter-strategy: paper beats stone, scissors beats paper\n- Test locally before submitting: ~pmars -r 100 yours.red opponent.red~\n\n### GENERALIZED PATTERNS WITH EXAMPLES\n\n**P32: Use Libraries Over Custom Implementation**\nWhen algorithm is well-known (chess, compression, statistics), use existing library:\n~~~python\n# Example: python-chess for chess analysis\nimport chess.engine\nengine = chess.engine.SimpleEngine.popen_uci(\"/usr/bin/stockfish\")\nresult = engine.analyse(board, chess.engine.Limit(depth=25), multipv=10)\n~~~\n\n**P33: Binary Mode for All File I/O**\nPrevents encoding errors in compression, serialization, any binary data:\n~~~python\n# Example: compression with proper binary handling\nimport zlib\ndata = open('input.txt', 'rb').read()  # MUST be 'rb' not 'r'\ncompressed = zlib.compress(data, 9)\nassert zlib.decompress(compressed) == data  # Always verify round-trip!\n~~~\n\n**P34: Search/Use Existing Packages**\nBefore implementing from scratch, check package managers:\n~~~r\n# Example: R statistical sampling - use CRAN package\nlibrary(ars)\nsamples <- ars::ars(n=1000, f=log_density, fprima=derivative, x=c(-1,0,1))\n~~~\n\n**P35: Counter-Strategy in Competitive Domains**\nWhen facing opponents, identify rock-paper-scissors dynamics:\n~~~\n# Example: CoreWars - replicator (paper) beats bomber (stone)\nspl 0, 0    ; Replicate to overwhelm opponent\nmov -1, 0\njmp -2\n~~~\n\n**P36: Multi-Language via Comment Syntax**\nWhen code must compile in multiple languages, use comment differences:\n~~~\n/* Lang1 code hidden in Lang2 comment\nfn main() { println!(\"Hello\"); }\n// */ \n#include <stdio.h>\nint main() { printf(\"Hello\n\"); }  /* Lang2 code */\n~~~\n\n**Reserve 30% of time for iteration. NEVER give up after first test failure.**\n\n---\n\n## YOUR TASK:\n\n"

(* uam_harbor/pre_execution_hooks.py *)

\* Optional[...]: None, or a value
Absent == <<>>

Some(x) == <<x>>

\* the truth value Python gives an optional string: neither None nor empty
Truthy(opt) == opt # Absent /\ opt[1] # ""

\* a detection for which one keyword is enough
detect_task_by_one_keyword(instr) ==
    LET lower == Lower(instr)
        hits == {k \in 1..Len(hooks_PRE_EXECUTION_HOOKS) :
                    keyword_matches(lower, hooks_PRE_EXECUTION_HOOKS[k].detection_keywords) >= 1}
    IN  IF hits = {} THEN Absent
        ELSE Some(hooks_PRE_EXECUTION_HOOKS[CHOOSE k \in hits : \A j \in hits : k <= j].name)

\* the first task of the table with at least two of its keywords in the lowered
\* instruction, None when there is none
detect_task_from_instruction(instr) ==
    LET lower == Lower(instr)
        hits == {k \in 1..Len(hooks_PRE_EXECUTION_HOOKS) :
                    keyword_matches(lower, hooks_PRE_EXECUTION_HOOKS[k].detection_keywords)
                        >= HookThreshold}
    IN  IF hits = {} THEN Absent
        ELSE Some(hooks_PRE_EXECUTION_HOOKS[CHOOSE k \in hits : \A j \in hits : k <= j].name)

get_pre_execution_commands(task_name) ==
    LET found == {k \in 1..Len(hooks_PRE_EXECUTION_HOOKS) :
                     hooks_PRE_EXECUTION_HOOKS[k].name = task_name}
    IN  IF found = {} THEN <<>>
        ELSE hooks_PRE_EXECUTION_HOOKS[CHOOSE k \in found : TRUE].commands

get_post_execution_context(task_name) ==
    LET found == {k \in 1..Len(post_execution_contexts) :
                     post_execution_contexts[k].name = task_name}
    IN  IF found = {} THEN ""
        ELSE post_execution_contexts[CHOOSE k \in found : TRUE].context

(* uam_harbor/uam_agent.py: UAMAgent.create_run_agent_commands *)

\* the characters shlex.quote leaves alone
SafeCharacters ==
    LET safe == UpperLetters \o LowerLetters \o "0123456789_@%+=:,./-"
    IN  {SubSeq(safe, k, k) : k \in 1..Len(safe)}

\* s[i..j] with every apostrophe closed, escaped and opened again, by halves
RECURSIVE EscapeFrom(_, _, _)
EscapeFrom(s, i, j) ==
    IF i > j THEN ""
    ELSE IF i = j THEN (IF SubSeq(s, i, i) = "'" THEN "'\"'\"'" ELSE SubSeq(s, i, i))
    ELSE EscapeFrom(s, i, (i + j) \div 2) \o EscapeFrom(s, (i + j) \div 2 + 1, j)

\* shlex.quote
shlex_quote(s) ==
    IF s = "" THEN "''"
    ELSE IF \A i \in 1..Len(s) : SubSeq(s, i, i) \in SafeCharacters THEN s
    ELSE "'" \o EscapeFrom(s, 1, Len(s)) \o "'"

\* Python: s.split("/")[-1]
LastSegment(s) ==
    LET slashes == {i \in 1..Len(s) : SubSeq(s, i, i) = "/"}
    IN  IF slashes = {} THEN s
        ELSE SubSeq(s, (CHOOSE i \in slashes : \A j \in slashes : j <= i) + 1, Len(s))

\* os.environ.get(key, ""), with environ a function from names to values
Getenv(environ, key) == IF key \in DOMAIN environ THEN environ[key] ELSE ""

\* the entries of a dictionary that are kept by "if v"
NonEmptyEntries(d) == [k \in {x \in DOMAIN d : d[x] # ""} |-> d[k]]

\* the dictionary env of create_run_agent_commands
AgentEnv(model_name, max_thinking_tokens, environ, agent_dir) ==
    LET passed == NonEmptyEntries(
            [k \in {"ANTHROPIC_API_KEY", "ANTHROPIC_BASE_URL", "CLAUDE_CODE_OAUTH_TOKEN",
                    "CLAUDE_CODE_MAX_OUTPUT_TOKENS"} |-> Getenv(environ, k)])
            @@ ("FORCE_AUTO_BACKGROUND_TASKS" :> "1") @@ ("ENABLE_BACKGROUND_TASKS" :> "1")
        model == IF Truthy(model_name)
                 THEN IF "ANTHROPIC_BASE_URL" \in DOMAIN passed
                      THEN ("ANTHROPIC_MODEL" :> model_name[1])
                      ELSE ("ANTHROPIC_MODEL" :> LastSegment(model_name[1]))
                 ELSE IF "ANTHROPIC_MODEL" \in DOMAIN environ
                      THEN ("ANTHROPIC_MODEL" :> environ["ANTHROPIC_MODEL"])
                      ELSE <<>>
        chosen == model @@ passed
        aliases == IF "ANTHROPIC_BASE_URL" \in DOMAIN chosen /\ "ANTHROPIC_MODEL" \in DOMAIN chosen
                   THEN [k \in {"ANTHROPIC_DEFAULT_SONNET_MODEL", "ANTHROPIC_DEFAULT_OPUS_MODEL",
                                "ANTHROPIC_DEFAULT_HAIKU_MODEL", "CLAUDE_CODE_SUBAGENT_MODEL"}
                            |-> chosen["ANTHROPIC_MODEL"]]
                   ELSE <<>>
        thinking == IF max_thinking_tokens # Absent
                    THEN ("MAX_THINKING_TOKENS" :> ToString(max_thinking_tokens[1]))
                    ELSE IF "MAX_THINKING_TOKENS" \in DOMAIN environ
                         THEN ("MAX_THINKING_TOKENS" :> environ["MAX_THINKING_TOKENS"])
                         ELSE <<>>
    IN  ("CLAUDE_CONFIG_DIR" :> agent_dir \o "/sessions")
        @@ thinking
        @@ ("CLAUDE_CODE_DISABLE_NONESSENTIAL_TRAFFIC" :> "1")
        @@ aliases @@ chosen

ExecInput(command, env) == [command |-> command, env |-> env]

MakeDirectories ==
    "mkdir -p $CLAUDE_CONFIG_DIR/debug $CLAUDE_CONFIG_DIR/projects/-app "
    \o "$CLAUDE_CONFIG_DIR/shell-snapshots $CLAUDE_CONFIG_DIR/statsig "
    \o "$CLAUDE_CONFIG_DIR/todos && "
    \o "if [ -d ~/.claude/skills ]; then "
    \o "cp -r ~/.claude/skills $CLAUDE_CONFIG_DIR/skills 2>/dev/null || true; "
    \o "fi"

\* the instruction with UAM_PREAMBLE and the context of the detected task before it
enhanced_instruction(instr, post_context) ==
    UAM_PREAMBLE
    \o (IF post_context # "" THEN "\n" \o post_context \o "\n\n" ELSE "")
    \o instr

\* the invocation of the agent
AgentInvocation(escaped_instruction, allowed_tools) ==
    "claude --verbose --output-format stream-json "
    \o "-p " \o escaped_instruction \o " --allowedTools "
    \o Join(" ", allowed_tools) \o " 2>&1 </dev/null | tee "
    \o "/logs/agent/claude-code.txt"

\* the hook command, when hooks were detected
HookCommand(pre_hook_commands, env) ==
    IF pre_hook_commands # <<>>
    THEN <<ExecInput("cd /app && " \o Join(" && ", pre_hook_commands), env)>>
    ELSE <<>>

\* a list of commands with the hook command after the invocation of the agent
commands_with_hook_last(setup, hook, agent) == setup \o agent \o hook

\* the list commands: setup, hook command, invocation of the agent
commands_in_order(setup, hook, agent) == setup \o hook \o agent

\* self is given by model_name, max_thinking_tokens and ALLOWED_TOOLS, the process
\* by environ, and the installation by agent_dir
HarborUAMAgent_create_run_agent_commands(instr, self, environ, agent_dir) ==
    LET task_name == detect_task_from_instruction(instr)
        pre_hook_commands ==
            IF Truthy(task_name) THEN get_pre_execution_commands(task_name[1]) ELSE <<>>
        post_context ==
            IF Truthy(task_name) THEN get_post_execution_context(task_name[1]) ELSE ""
        escaped_instruction == shlex_quote(enhanced_instruction(instr, post_context))
        env == AgentEnv(self.model_name, self.max_thinking_tokens, environ, agent_dir)
    IN  commands_in_order(<<ExecInput(MakeDirectories, env)>>,
                          HookCommand(pre_hook_commands, env),
                          <<ExecInput(AgentInvocation(escaped_instruction, self.ALLOWED_TOOLS),
                                      env)>>)

(* A task given to both agents: UAMAgent.create_run_agent_commands builds its
   list of commands, then SuperGeniusAgent.run runs *)

HookedInstructions ==
    {"List the files",
     "Recover the SQLite database from the WAL",
     "Recover the leaked secret from git history",
     "Find the best move in this chess position"}

\* self of the UAMAgent of uam_harbor: the fields create_run_agent_commands reads
HarborAgents ==
    {[model_name |-> Absent, max_thinking_tokens |-> Absent,
      ALLOWED_TOOLS |-> <<"Bash", "Edit", "Read">>],
     [model_name |-> Some("anthropic/claude-opus-4-5"), max_thinking_tokens |-> Some(1024),
      ALLOWED_TOOLS |-> <<"Bash">>]}

\* os.environ of the process
Environs ==
    {<<>>,
     ("ANTHROPIC_API_KEY" :> "key") @@ ("ANTHROPIC_BASE_URL" :> "http://proxy")
        @@ ("ANTHROPIC_MODEL" :> "claude-env")}

\* EnvironmentPaths.agent_dir
AgentDir == "/logs/agent"

InitHooked ==
    /\ pc = "commands"
    /\ instruction \in HookedInstructions
    /\ call \in {[fn |-> "create_run_agent_commands", instruction |-> instruction,
                  self |-> a, environ |-> e, done |-> FALSE, commands |-> <<>>] :
                    a \in HarborAgents, e \in Environs}
    /\ max_turns = 1
    /\ enable_pre_hooks \in BOOLEAN
    /\ enable_planning = TRUE
    /\ task_classification = NoClassification
    /\ pre_hook_context = ""
    /\ pending = <<>>
    /\ info_parts = <<>>
    /\ turn = 0
    /\ current_prompt = ""
    /\ response_text = ""
    /\ commands = <<>>
    /\ all_output = <<>>
    /\ context_metadata = [x \in {} |-> 0]
    /\ tasks_run = 0
    /\ chat \in {[script |-> s, calls |-> <<>>] :
                    s \in {<<Completion>>, <<ThreeCommands, EngineRaises>>}}
    /\ environment \in {[profile |-> p, calls |-> <<>>] : p \in Profiles}
    /\ timeout_sec = DefaultTimeoutSec
    /\ use_memory = TRUE
    /\ context_decision = None
    /\ task_category = "general"
    /\ memory_context = ""
    /\ env_info = ""
    /\ prev_error = ""
    /\ current_context_level = "unset"
    /\ attempt = 0
    /\ prompt = ""
    /\ turns = <<>>
    /\ result = NoResult
    /\ metadata = [context_decision |-> LoggedDecision(None), all_attempts_failed |-> FALSE]

\* UAMAgent.create_run_agent_commands(instruction) returns
CallCreateCommands ==
    /\ pc = "commands"
    /\ call.fn = "create_run_agent_commands" /\ ~call.done
    /\ call' = [call EXCEPT !.done = TRUE,
                   !.commands = HarborUAMAgent_create_run_agent_commands(
                                   call.instruction, call.self, call.environ, AgentDir)]
    /\ pc' = "sg_start"
    /\ UNCHANGED <<instruction, timeout_sec, max_turns, use_memory, context_decision,
                   task_category, memory_context, env_info, prev_error,
                   current_context_level, attempt, prompt, turns, result, metadata>>
    /\ UNCHANGED sgVars

NextHooked == CallCreateCommands \/ NextSG

SpecHooked == InitHooked /\ [][NextHooked]_vars

\* in a run with hooks enabled, the calls of environment.exec begin with the
\* hook commands of the classified task, in order and with the time limit of hooks
HooksDispatchedFirst ==
    LET hooks == task_classification.pre_hooks
    IN  /\ Len(environment.calls) >= Len(hooks)
        /\ \A k \in 1..Len(hooks) :
              environment.calls[k] = [cmd |-> hooks[k], timeout_sec |-> HookTimeoutSec]

IsAgentInvocation(input) == StartsWith(input.command, "claude --verbose ")

\* the hook commands of the table of pre_execution_hooks.py for the instruction
DetectedHooks(instr) ==
    LET task_name == detect_task_from_instruction(instr)
    IN  IF task_name = Absent THEN <<>> ELSE get_pre_execution_commands(task_name[1])

\* the list has the setup command, the hook command when hooks were detected,
\* and the invocation of the agent, which is the last and the only one
HookPrecedesAgent(instr, list) ==
    /\ Len(list) = (IF DetectedHooks(instr) = <<>> THEN 2 ELSE 3)
    /\ IsAgentInvocation(list[Len(list)])
    /\ \A k \in 1..(Len(list) - 1) : ~IsAgentInvocation(list[k])
    /\ DetectedHooks(instr) # <<>>
          => list[2].command = "cd /app && " \o Join(" && ", DetectedHooks(instr))

\* C24: pre-execution hook commands run before the agent starts. In
\* SuperGeniusAgent.run with hooks enabled, every hook command of the classified
\* task has been dispatched, and has returned or raised, before the first call
\* of the engine; in the list returned by UAMAgent.create_run_agent_commands the
\* hook command, when there is one, comes before the invocation of the agent,
\* which is always the last command of the list.
C24_HooksRunBeforeAgent ==
    /\ (enable_pre_hooks /\ pc \in {"chat", "exec", "done"}) => HooksDispatchedFirst
    /\ (enable_pre_hooks /\ chat.calls # <<>>) => HooksDispatchedFirst
    /\ (call.fn = "create_run_agent_commands" /\ call.done)
          => HookPrecedesAgent(call.instruction, call.commands)

\* both agents were given a task with hooks in both tables; the engine has been
\* called after the three hooks of its table, the list has its hook command
C24_Witness ==
    /\ enable_pre_hooks
    /\ Len(task_classification.pre_hooks) = 3
    /\ chat.calls # <<>>
    /\ environment.calls[3].timeout_sec = HookTimeoutSec
    /\ call.fn = "create_run_agent_commands" /\ call.done
    /\ Len(call.commands) = 3
    /\ StartsWith(call.commands[2].command, "cd /app && cp /app/main.db-wal")

-----------------------------------------------------------------------------
(* decide_context_level reads its arguments and the module-level tables only *)

\* the decision a call made in the current state returns for the arguments of
\* the call that opened the run
DecidedAgain == decide_context_level(instruction, timeout_sec, DefaultDifficulty)

-----------------------------------------------------------------------------
(* One agent instance is given several tasks, one call of run after another *)

\* the calls of run one instance receives
MaxTasks == 2

FirstTasks ==
    {"Crack the password hash",
     "Recover the SQLite database from the WAL",
     "Write a shelf inventory report"}

\* a new UAMAgent or a new SuperGeniusAgent, about to run its first task
InitTasks ==
    \/ /\ Init
       /\ instruction \in FirstTasks
       /\ max_turns \in 1..2
       /\ timeout_sec = DefaultTimeoutSec
    \/ /\ InitSG
       /\ max_turns = 1
       /\ chat.script \in {<<Completion>>, <<OneCleanCommand, Completion>>,
                           <<OneCleanCommand, EngineRaises>>}

\* UAMAgent.run has returned or raised, and run is called again on the same
\* instance: the locals and the AgentContext are new, the fields of self are
\* what the last run left
UAM_NextTask ==
    /\ pc \in {"success", "exhausted", "raised"}
    /\ tasks_run + 1 < MaxTasks
    /\ tasks_run' = tasks_run + 1
    /\ instruction' \in Instructions
    /\ pc' = "start"
    /\ env_info' = ""
    /\ prev_error' = ""
    /\ current_context_level' = "unset"
    /\ attempt' = 0
    /\ prompt' = ""
    /\ turns' = <<>>
    /\ result' = NoResult
    /\ metadata' = [context_decision |-> LoggedDecision(None), all_attempts_failed |-> FALSE]
    /\ UNCHANGED <<timeout_sec, max_turns, use_memory, context_decision, task_category,
                   memory_context, call>>
    /\ UNCHANGED <<enable_pre_hooks, enable_planning, task_classification,
                   pre_hook_context, pending, info_parts, turn, current_prompt,
                   response_text, commands, all_output, context_metadata, chat,
                   environment>>

\* SuperGeniusAgent.run has returned, and run is called again on the same
\* instance with the container and the AgentContext of the next task; run
\* builds its Chat anew
SG_NextTask ==
    /\ pc = "done"
    /\ tasks_run + 1 < MaxTasks
    /\ tasks_run' = tasks_run + 1
    /\ instruction' \in SGInstructions
    /\ pc' = "sg_start"
    /\ pending' = <<>>
    /\ info_parts' = <<>>
    /\ turn' = 0
    /\ current_prompt' = ""
    /\ response_text' = ""
    /\ commands' = <<>>
    /\ all_output' = <<>>
    /\ context_metadata' = [x \in {} |-> 0]
    /\ chat' = [chat EXCEPT !.calls = <<>>]
    /\ environment' = [environment EXCEPT !.calls = <<>>]
    /\ UNCHANGED <<max_turns, enable_pre_hooks, enable_planning, task_classification,
                   pre_hook_context, env_info>>
    /\ UNCHANGED <<timeout_sec, use_memory, context_decision, task_category,
                   memory_context, prev_error, current_context_level, attempt, prompt,
                   turns, result, metadata, call>>

NextTasks == Next \/ NextSG \/ UAM_NextTask \/ SG_NextTask

SpecTasks == InitTasks /\ [][NextTasks]_vars

\* what a new UAMAgent decides, generates and asks for the task at hand
FreshDecision == decide_context_level(instruction, timeout_sec, DefaultDifficulty)

FreshMemoryContext == IF use_memory THEN generate_context(FreshDecision) ELSE ""

UAMAsFresh ==
    /\ pc \in {"bootstrap", "turn", "dispatch", "success", "exhausted", "raised"}
          => /\ context_decision = FreshDecision
             /\ task_category = FreshDecision.task_type
    /\ (pc \in {"turn", "dispatch"} /\ attempt = 1)
          => /\ current_context_level = FreshDecision.level
             /\ memory_context = FreshMemoryContext
    /\ (pc = "dispatch" /\ attempt = 1)
          => prompt = UAMAgent_build_prompt(instruction, 1, "", env_info,
                          FreshDecision.task_type, FreshMemoryContext, max_turns)

\* what a new SuperGeniusAgent classifies, takes as hook context and asks
FreshClassification == SuperGenius_classify_task(instruction)

FreshHookContext ==
    IF enable_pre_hooks /\ FreshClassification.pre_hooks # <<>>
    THEN FreshClassification.post_hook_context
    ELSE ""

SuperGeniusAsFresh ==
    /\ pc \in {"pre_hooks", "env_info", "chat", "exec", "done"}
          => task_classification = FreshClassification
    /\ pc \in {"env_info", "chat", "exec", "done"}
          => pre_hook_context = FreshHookContext
    /\ (pc \in {"chat", "exec", "done"} /\ chat.calls # <<>>)
          => chat.calls[1].prompt =
                SuperGenius_build_hierarchical_prompt(instruction, 1, "", env_info,
                    FreshClassification, enable_planning, FreshHookContext, max_turns)

\* the first task of an instance is run as the two predicates above say
FirstTaskAsFresh == tasks_run = 0 => (UAMAsFresh /\ SuperGeniusAsFresh)

\* C26: no per-task state survives across tasks. When one agent instance has
\* run a task and runs another, the classification, the context level, the
\* memory or hook context and the first prompt of the later task are those a
\* new instance would use for that task alone, for UAMAgent.run and for
\* SuperGeniusAgent.run.
C26_LaterTaskRunsAsFresh == tasks_run >= 1 => (UAMAsFresh /\ SuperGeniusAsFresh)

-----------------------------------------------------------------------------
(* The escalation block of UAMAgent.run, applied to the decision of a task *)

EscalationTimeouts == {40, 60, 100, 160, 200, 300}

\* the block is entered for a task outside the low-benefit categories and for
\* a level above the level of the initial decision
EscalationInputs ==
    {[fn |-> "escalated_decision", instr |-> i, timeout |-> t, level |-> l,
      decided |-> FALSE, done |-> FALSE, initial |-> None, decision |-> None,
      context |-> ""] :
        i \in Instructions, t \in EscalationTimeouts, l \in {"minimal", "full"}}

InitEscalation ==
    /\ pc = "call"
    /\ call \in EscalationInputs
    /\ LevelIndex(call.level) >
          LevelIndex(decide_context_level(call.instr, call.timeout, DefaultDifficulty).level)
    /\ classify_task(call.instr) \notin LOW_BENEFIT_CATEGORIES
    /\ instruction = ""
    /\ timeout_sec = DefaultTimeoutSec
    /\ max_turns = 0
    /\ use_memory = TRUE
    /\ context_decision = None
    /\ task_category = "general"
    /\ memory_context = ""
    /\ env_info = ""
    /\ prev_error = ""
    /\ current_context_level = "unset"
    /\ attempt = 0
    /\ prompt = ""
    /\ turns = <<>>
    /\ result = NoResult
    /\ metadata = [context_decision |-> LoggedDecision(None), all_attempts_failed |-> FALSE]
    /\ NoSuperGenius

\* self._context_decision = HybridAdaptiveContext.decide_context_level(...)
EscalationDecide ==
    /\ call.fn = "escalated_decision" /\ ~call.decided
    /\ call' = [call EXCEPT !.decided = TRUE,
                   !.initial = decide_context_level(call.instr, call.timeout,
                                                    DefaultDifficulty)]
    /\ UNCHANGED runVars

\* escalated_decision = ContextDecision(level=current_context_level, ...);
\* self._memory_context = HybridAdaptiveContext.generate_context(escalated_decision)
EscalationBuild ==
    /\ call.fn = "escalated_decision" /\ call.decided /\ ~call.done
    /\ LET escalated == UAMAgent_escalated_decision(call.instr, call.level,
                                                    call.initial, call.initial.task_type)
       IN  call' = [call EXCEPT !.done = TRUE, !.decision = escalated,
                                !.context = generate_context(escalated)]
    /\ UNCHANGED runVars

NextEscalation == EscalationDecide \/ EscalationBuild

SpecEscalation == InitEscalation /\ [][NextEscalation]_vars

Escalated == call.fn = "escalated_decision" /\ call.done

CarriedOver ==
    /\ call.decision.task_type = call.initial.task_type
    /\ call.decision.time_pressure = call.initial.time_pressure
    /\ call.decision.historical_benefit = call.initial.historical_benefit

-----------------------------------------------------------------------------
(* The sections of a decision of level minimal or full *)

\* the sections of the keyword table, in table order
SectionOrder == <<"security", "file_formats", "coding", "tools", "legacy">>

\* the keywords of a section of the table
KeywordsOf(section) ==
    LET k == CHOOSE j \in 1..Len(section_keywords) : section_keywords[j].section = section
    IN  {section_keywords[k].keywords[j] : j \in 1..Len(section_keywords[k].keywords)}

\* the section a category adds when no keyword of that section matched
CategoryDefault ==
    ("security" :> "security") @@ ("file-ops" :> "file_formats") @@ ("legacy" :> "legacy")

\* the selection: the sections with a keyword in the lower-cased instruction,
\* in table order, then the section of the category unless it is among them
Selection(instr, category) ==
    LET matched ==
            SelectSeq(SectionOrder,
                      LAMBDA s : \E kw \in KeywordsOf(s) : Contains(Lower(instr), kw))
    IN  IF category \in DOMAIN CategoryDefault /\ ~InSeq(CategoryDefault[category], matched)
        THEN Append(matched, CategoryDefault[category])
        ELSE matched

NoDuplicates(seq) == \A j, k \in 1..Len(seq) : seq[j] = seq[k] => j = k

\* the single default section
DefaultSection == "coding"

\* C28 as stated: a minimal decision lists the first section of the selection,
\* or the default section when nothing was selected; a full decision lists the
\* whole selection, without duplicates and in the order of the selection.
C28_FullListsTheSelection ==
    Decided =>
        LET d == call.decision
            selected == Selection(call.instr, d.task_type)
        IN  /\ d.level = "minimal" =>
                  d.sections = (IF selected # <<>> THEN <<selected[1]>>
                                ELSE <<DefaultSection>>)
            /\ d.level = "full" => (d.sections = selected /\ NoDuplicates(d.sections))

\* C28, amended: a minimal decision lists the first section of the selection,
\* or the default section when nothing was selected; a full decision lists the
\* whole selection, without duplicates and in the order of the selection, or
\* the default section when nothing was selected.
C28_SectionsOfMinimalAndFull ==
    Decided =>
        LET d == call.decision
            selected == Selection(call.instr, d.task_type)
        IN  /\ d.level = "minimal" =>
                  d.sections = (IF selected # <<>> THEN <<selected[1]>>
                                ELSE <<DefaultSection>>)
            /\ d.level = "full" =>
                  /\ d.sections = (IF selected # <<>> THEN selected
                                   ELSE <<DefaultSection>>)
                  /\ NoDuplicates(d.sections)

\* a full decision for an instruction with keywords of three sections, one of
\* them the section of its category
C28_Witness ==
    /\ Decided
    /\ call.decision.level = "full"
    /\ call.decision.task_type = "security"
    /\ call.decision.sections = <<"security", "file_formats", "coding", "tools", "legacy">>

-----------------------------------------------------------------------------
(* _extract_error of the two agents *)

SuperGenius_error_markers == <<"error", "Error", "ERROR", "failed", "Failed", "Traceback">>

SuperGenius_extract_error(output) ==
    LET lines == SplitLines(Strip(output))
        error_lines ==
            SelectSeq(lines, LAMBDA l : ContainsAny(l, SuperGenius_error_markers))
    IN  IF Len(error_lines) > 0
        THEN Join("\n", LastN(error_lines, 3))
        ELSE Join("\n", LastN(lines, 5))

\* the most lines an output is made of
MaxOutputLines == 6

OutputLines ==
    {"ok", "", "Error: 1", "2 failed", "Traceback"}

RECURSIVE LineLists(_)
\* the lists of n lines
LineLists(n) ==
    IF n = 0 THEN {<<>>}
    ELSE {Append(ls, l) : ls \in LineLists(n - 1), l \in OutputLines}

\* an output is its lines joined by newlines; one that ends with a newline
\* has an empty last line
ExtractErrorInputs ==
    {[fn |-> f, lines |-> ls, output |-> Join("\n", ls), done |-> FALSE, ret |-> ""] :
        f \in {"UAMAgent._extract_error", "SuperGeniusAgent._extract_error"},
        ls \in UNION {LineLists(n) : n \in 0..MaxOutputLines}}

InitExtractError ==
    /\ pc = "call"
    /\ call \in ExtractErrorInputs
    /\ instruction = ""
    /\ timeout_sec = DefaultTimeoutSec
    /\ max_turns = 0
    /\ use_memory = TRUE
    /\ context_decision = None
    /\ task_category = "general"
    /\ memory_context = ""
    /\ env_info = ""
    /\ prev_error = ""
    /\ current_context_level = "unset"
    /\ attempt = 0
    /\ prompt = ""
    /\ turns = <<>>
    /\ result = NoResult
    /\ metadata = [context_decision |-> LoggedDecision(None), all_attempts_failed |-> FALSE]
    /\ NoSuperGenius

CallUAMExtractError ==
    /\ call.fn = "UAMAgent._extract_error" /\ ~call.done
    /\ call' = [call EXCEPT !.done = TRUE, !.ret = UAMAgent_extract_error(call.output)]
    /\ UNCHANGED runVars

CallSuperGeniusExtractError ==
    /\ call.fn = "SuperGeniusAgent._extract_error" /\ ~call.done
    /\ call' = [call EXCEPT !.done = TRUE, !.ret = SuperGenius_extract_error(call.output)]
    /\ UNCHANGED runVars

NextExtractError == CallUAMExtractError \/ CallSuperGeniusExtractError

SpecExtractError == InitExtractError /\ [][NextExtractError]_vars

\* the error markers of the function called
MarkersOf(fn) ==
    IF fn = "UAMAgent._extract_error"
    THEN {"error", "Error", "ERROR", "failed", "Failed"}
    ELSE {"error", "Error", "ERROR", "failed", "Failed", "Traceback"}

\* the last n positions of a set of positions, or all of them when it has fewer
LastPositions(positions, n) ==
    {p \in positions : Cardinality({q \in positions : q > p}) < n}

\* the lines at the given positions, in the order of the positions, as a text
RECURSIVE LinesAt(_, _)
LinesAt(lines, positions) ==
    IF positions = {} THEN ""
    ELSE LET first == CHOOSE p \in positions : \A q \in positions : p <= q
         IN  IF positions = {first} THEN lines[first]
             ELSE lines[first] \o "\n" \o LinesAt(lines, positions \ {first})

\* the positions of the lines of the output, the empty lines before the
\* first and after the last non-empty line left out
TrimmedPositions(lines) ==
    LET filled == {p \in 1..Len(lines) : lines[p] # ""}
    IN  {p \in 1..Len(lines) : (\E q \in filled : q <= p) /\ (\E q \in filled : p <= q)}

\* C29: the error excerpt is made of the last 3 lines of the output that
\* contain an error marker, in their original order, when there is such a
\* line; otherwise of the last 5 lines of the output, of all lines when there
\* are fewer. The output is taken without the empty lines at its two ends.
C29_ErrorExcerpt ==
    (call.fn \in {"UAMAgent._extract_error", "SuperGeniusAgent._extract_error"}
     /\ call.done) =>
        LET all == TrimmedPositions(call.lines)
            marked == {p \in all : \E m \in MarkersOf(call.fn) : Contains(call.lines[p], m)}
        IN  call.ret = (IF marked # {}
                        THEN LinesAt(call.lines, LastPositions(marked, 3))
                        ELSE LinesAt(call.lines, LastPositions(all, 5)))

\* four of six lines carry a marker: the excerpt is the last three of them
C29_Witness ==
    /\ call.fn = "UAMAgent._extract_error" /\ call.done
    /\ call.lines = <<"2 failed", "Error: 1", "ok", "2 failed", "Traceback", "Error: 1">>
    /\ call.ret = "Error: 1\n2 failed\nError: 1"

-----------------------------------------------------------------------------
(* Calls of detect_task_from_instruction and SuperGeniusAgent._classify_task *)

\* the most phrases an instruction is made of
MaxPhrases == 4

DetectPhrases ==
    <<"Recover the SQLite database", "from the db-WAL file", "RECOVERY needed",
      "write a regex", "for chess", "find the Best Move", "on the board image",
      "reset the password", "keep the git history">>

\* the instruction made of the phrases at the given positions, in order
PhrasesAt(positions) ==
    Join(" ", SelectSeq([k \in 1..Len(DetectPhrases) |-> IF k \in positions
                                                        THEN DetectPhrases[k] ELSE ""],
                        LAMBDA p : p # ""))

DetectInputs ==
    {[fn |-> f, instr |-> PhrasesAt(ps), done |-> FALSE, task |-> Absent,
      classification |-> NoClassification] :
        f \in {"detect_task_from_instruction", "_classify_task"},
        ps \in {s \in SUBSET (1..Len(DetectPhrases)) : Cardinality(s) <= MaxPhrases}}

InitDetect ==
    /\ pc = "call"
    /\ call \in DetectInputs
    /\ instruction = ""
    /\ timeout_sec = DefaultTimeoutSec
    /\ max_turns = 0
    /\ use_memory = TRUE
    /\ context_decision = None
    /\ task_category = "general"
    /\ memory_context = ""
    /\ env_info = ""
    /\ prev_error = ""
    /\ current_context_level = "unset"
    /\ attempt = 0
    /\ prompt = ""
    /\ turns = <<>>
    /\ result = NoResult
    /\ metadata = [context_decision |-> LoggedDecision(None), all_attempts_failed |-> FALSE]
    /\ NoSuperGenius

CallDetect ==
    /\ call.fn = "detect_task_from_instruction" /\ ~call.done
    /\ call' = [call EXCEPT !.done = TRUE, !.task = detect_task_from_instruction(call.instr)]
    /\ UNCHANGED runVars

CallClassify ==
    /\ call.fn = "_classify_task" /\ ~call.done
    /\ call' = [call EXCEPT !.done = TRUE,
                   !.classification = SuperGenius_classify_task(call.instr)]
    /\ UNCHANGED runVars

NextDetect == CallDetect \/ CallClassify

SpecDetect == InitDetect /\ [][NextDetect]_vars

\* the keywords of the list that occur in the lower-cased instruction
Occurring(instr, keywords) ==
    {j \in 1..Len(keywords) : Contains(Lower(instr), keywords[j])}

\* position k is the first of the table whose keyword list has two keywords
\* in the instruction
FirstWithTwo(instr, lists, k) ==
    /\ Cardinality(Occurring(instr, lists[k])) >= 2
    /\ \A j \in 1..(k - 1) : Cardinality(Occurring(instr, lists[j])) < 2

DetectionLists ==
    [k \in 1..Len(hooks_PRE_EXECUTION_HOOKS) |-> hooks_PRE_EXECUTION_HOOKS[k].detection_keywords]

ClassificationLists ==
    [k \in 1..Len(PRE_EXECUTION_HOOKS) |-> PRE_EXECUTION_HOOKS[k].keywords]

\* C30: hook-task detection returns the first entry of its table, in table
\* order, of which at least two keywords occur in the lower-cased instruction:
\* detect_task_from_instruction the name of the entry, _classify_task the name,
\* category, hooks and hook context of the entry. When no entry has two such
\* keywords, the first returns no task and the second the 'general'
\* classification, whose hook list and hook context are empty.
C30_FirstEntryWithTwoKeywords ==
    /\ (call.fn = "detect_task_from_instruction" /\ call.done) =>
          /\ \A k \in 1..Len(DetectionLists) :
                FirstWithTwo(call.instr, DetectionLists, k)
                   => call.task = Some(hooks_PRE_EXECUTION_HOOKS[k].name)
          /\ (\A k \in 1..Len(DetectionLists) : ~FirstWithTwo(call.instr, DetectionLists, k))
                => call.task = Absent
    /\ (call.fn = "_classify_task" /\ call.done) =>
          /\ \A k \in 1..Len(ClassificationLists) :
                FirstWithTwo(call.instr, ClassificationLists, k)
                   => /\ call.classification.name = PRE_EXECUTION_HOOKS[k].name
                      /\ call.classification.category = PRE_EXECUTION_HOOKS[k].category
                      /\ call.classification.pre_hooks = PRE_EXECUTION_HOOKS[k].pre_commands
                      /\ call.classification.post_hook_context =
                            PRE_EXECUTION_HOOKS[k].post_context
          /\ (\A k \in 1..Len(ClassificationLists) :
                 ~FirstWithTwo(call.instr, ClassificationLists, k))
                => /\ call.classification.name = "general"
                   /\ call.classification.category = "general"
                   /\ call.classification.pre_hooks = <<>>
                   /\ call.classification.post_hook_context = ""

\* two keywords of regex-chess and two of chess-best-move occur, and one of
\* db-wal-recovery: the entry that comes first in the table is returned
C30_Witness ==
    /\ call.fn = "detect_task_from_instruction" /\ call.done
    /\ call.instr = "RECOVERY needed write a regex for chess find the Best Move"
    /\ call.task = Some("regex-chess")

-----------------------------------------------------------------------------
(* The decision of the escalation step and the decision of the task *)

\* the head of a retry turn, where run calls get_progressive_levels
AtEscalationStep ==
    pc = "turn" /\ UAMAgent_in_range(attempt, max_turns) /\ attempt > 1 /\ prev_error # ""

\* C31: the escalation step of UAMAgent.run evaluates the decision of the
\* task. At the head of every retry turn the first element of the list
\* get_progressive_levels returns for the instruction and the error excerpt is
\* the level of the initial decision, which run took with the timeout of the
\* agent.
C31_ProgressiveLevelsStartAtInitialLevel ==
    AtEscalationStep =>
        get_progressive_levels(instruction, prev_error)[1] = context_decision.level

-----------------------------------------------------------------------------
(* The guidance regenerated by the escalation block *)

-----------------------------------------------------------------------------
(* The overhead a decision reports *)

RECURSIVE TokenCost(_)
\* the sum of the token costs of the sections of a list
TokenCost(sections) ==
    IF sections = <<>> THEN 0
    ELSE CONTEXT_SECTIONS[Head(sections)].tokens + TokenCost(Tail(sections))

\* C33: the overhead a decision of decide_context_level reports is the
\* overhead of the sections it lists: 4 times the sum of the token costs of
\* exactly the sections of its section list.
C33_OverheadIsThatOfTheSections ==
    Decided => call.decision.estimated_overhead_ms = 4 * TokenCost(call.decision.sections)

-----------------------------------------------------------------------------
(* The time pressure and the historical benefit a decision reports *)

PressureAndBenefitAssessed ==
    /\ call.decision.time_pressure =
          assess_time_pressure(call.timeout, call.decision.task_type, call.difficulty)
    /\ call.decision.historical_benefit = get_historical_benefit(call.decision.task_type)

\* C34 as stated: whichever rule produced it, a decision of
\* decide_context_level reports the time pressure assess_time_pressure gives
\* for the timeout, the category and the difficulty, and the historical
\* benefit get_historical_benefit gives for the category.
C34_PressureAndBenefitOfEveryRule == Decided => PressureAndBenefitAssessed

\* C34, amended: a decision produced by any rule but the rule for the
\* low-benefit categories reports the assessed time pressure and the
\* historical benefit of the category; the decision for a low-benefit
\* category reports time pressure low and historical benefit 0.
C34_PressureAndBenefitOutsideLowBenefit ==
    Decided =>
        IF call.decision.task_type \in LowBenefit
        THEN call.decision.time_pressure = "low" /\ call.decision.historical_benefit = 0
        ELSE PressureAndBenefitAssessed

\* a decision of level none taken for critical time pressure reports it, with
\* the benefit of its category
C34_Witness ==
    /\ Decided
    /\ call.decision.task_type = "security"
    /\ call.decision.level = "none"
    /\ call.decision.time_pressure = "critical"
    /\ call.decision.historical_benefit = 80

-----------------------------------------------------------------------------
(* The category of an instruction with a high-benefit keyword *)

HasLowBenefitKeyword(instr) == ContainsAny(Lower(instr), SKIP_UAM_KEYWORDS)

HasHighBenefitKeyword(instr) == ContainsAny(Lower(instr), HIGH_BENEFIT_KEYWORDS)

\* C35: classify_task returns 'general' only for an instruction without a
\* keyword of the low-benefit group and without a keyword of the high-benefit
\* group; an instruction with a high-benefit keyword and no low-benefit
\* keyword gets a category that is neither 'general' nor a low-benefit one.
C35_GeneralOnlyWithoutKeywords ==
    Decided =>
        LET category == call.decision.task_type
        IN  /\ category = "general" =>
                  (~HasLowBenefitKeyword(call.instr) /\ ~HasHighBenefitKeyword(call.instr))
            /\ (HasHighBenefitKeyword(call.instr) /\ ~HasLowBenefitKeyword(call.instr))
                  => (category # "general" /\ category \notin LowBenefit)

-----------------------------------------------------------------------------
(* What selects the level minimal *)

\* C36: with the duration, benefit and token tables as shipped, a decision of
\* level minimal that decide_context_level returns for a difficulty easy,
\* medium or hard reports time pressure high: the overhead of the selection is
\* never more than a tenth of the timeout when the time pressure is not high.
C36_MinimalOnlyUnderHighPressure ==
    (Decided /\ call.difficulty \in {"easy", "medium", "hard"}
     /\ call.decision.level = "minimal") =>
        /\ call.decision.time_pressure = "high"
        /\ 10 * 4 * TokenCost(select_relevant_sections(call.instr, call.decision.task_type))
              <= call.timeout * 1000

\* a minimal decision for the instruction that selects all five sections, at
\* the smallest timeout that is not critical for its category and difficulty
C36_Witness ==
    /\ Decided
    /\ call.difficulty = "easy"
    /\ call.decision.level = "minimal"
    /\ call.decision.task_type = "security"
    /\ call.timeout = 72
    /\ Len(select_relevant_sections(call.instr, "security")) = 5

-----------------------------------------------------------------------------
(* The turns a run of SuperGeniusAgent reports *)

\* C37: on every exit of SuperGeniusAgent.run that records turns_used (success
\* by a completion phrase, exhaustion of the turns, stop after an exception of
\* the engine) turns_used is the number of turn records of the history, which
\* is the number of calls of the engine that returned.
C37_TurnsUsedCountsTurnRecords ==
    (pc = "done" /\ "turns_used" \in DOMAIN context_metadata) =>
        context_metadata["turns_used"] = Len(context_metadata["turns"])

-----------------------------------------------------------------------------
(* The flag pre_hooks_run *)

\* the calls of environment.exec made for pre-hooks: _run_pre_hooks is the one
\* caller that passes the time limit of 30 seconds
HooksDispatched ==
    {k \in 1..Len(environment.calls) : environment.calls[k].timeout_sec = HookTimeoutSec}

\* C38: in SuperGeniusAgent.run the flag pre_hooks_run is true if and only if
\* at least one pre-hook command was dispatched to the container for the
\* task, with pre-hooks enabled and with pre-hooks disabled.
C38_FlagTellsWhetherHooksRan ==
    "pre_hooks_run" \in DOMAIN context_metadata =>
        (context_metadata["pre_hooks_run"] <=> HooksDispatched # {})

-----------------------------------------------------------------------------
(* The agent without memory *)

\* the texts by which guidance shows in a prompt: the heading generate_context
\* writes and the content of each entry of CONTEXT_SECTIONS
GuidanceTexts ==
    {"## UAM Memory Context"} \cup {CONTEXT_SECTIONS[s].content : s \in DOMAIN CONTEXT_SECTIONS}

HoldsGuidance(text) == \E g \in GuidanceTexts : Contains(text, g)

PromptBuilt == pc \in {"dispatch", "success", "exhausted"} /\ attempt >= 1

\* C39: an agent constructed with use_memory = False puts no guidance into a
\* prompt. In every turn of UAMAgent.run, the turns after a failed turn whose
\* error excerpt went through the escalation step included, the memory context
\* is empty and the prompt holds neither the heading of the guidance nor the
\* content of a guidance section.
C39_NoGuidanceWithoutMemory ==
    ~use_memory =>
        /\ memory_context = ""
        /\ PromptBuilt => ~HoldsGuidance(prompt)

\* a retry turn of an agent without memory whose decision is above 'none' and
\* whose previous error suggests that context might help
C39_Witness ==
    /\ ~use_memory
    /\ pc = "dispatch"
    /\ attempt >= 2
    /\ context_decision.level = "minimal"
    /\ context_might_help(prev_error)

====
